---------------------------- MODULE Spec2Model ----------------------------
(***************************************************************************)
(* A model of tornado-restless: the filter compiler (convert.to_filter),   *)
(* the tree serializer (convert.to_dict / to_deep), the query executor     *)
(* (wrapper.SessionedModelWrapper) and the GET handlers of BaseHandler.    *)
(*                                                                         *)
(* Python values are records [kind, v]; a raised exception is the name of  *)
(* its class in an `err` field, "none" when the call returned.             *)
(***************************************************************************)
EXTENDS Integers, Sequences, FiniteSets, TLC

VARIABLES
    pc,               \* position of the scenario: "ready" before the call, "done" after
    instance,         \* to_filter: the model class / to_dict: the value to serialize
    filters,          \* to_filter: the caller's list of filter dicts (mutable)
    order_by,         \* to_filter: the caller's list of order dicts
    alchemy_filters,  \* to_filter: the returned expression list
    raised,           \* the exception class the last call raised, "none" otherwise
    call,             \* history: the arguments of the call as the caller passed them
    include_arg,      \* to_dict: the caller's include spec (mutable)
    exclude_arg,      \* to_dict: the caller's exclude spec
    options_arg,      \* to_dict: the options argument
    tree,             \* to_dict: the returned tree
    instance_type,    \* to_dict: the instance_type of the exception raised, None if it has none
    reads,            \* to_dict: the attribute reads of the call, <<id, attribute>> pairs
    default_options,  \* the defaultdict that is the default of to_dict's options parameter
    handler,          \* BaseHandler: the configuration the blueprint initialized it with
    request,          \* BaseHandler: the instance id, the arguments and the q dictionary
    status,           \* BaseHandler: the status code of the response, 0 before it is sent
    result,           \* BaseHandler: the body passed to finish
    queries,          \* the calls made on the model wrapper that run a storage query
    stored,           \* the rows the request has committed to storage, in order
    ran,              \* the names under which _call_preprocessor has run functions
    values,           \* the maps the calls of get_argument_values returned, in order
    memo,             \* the memoized result of get_body_arguments, Absent before it returned
    columns,          \* parse_columns: the returned dict
    finished          \* BaseHandler.post: the calls of finish on the response so far

filter_vars == <<filters, order_by, alchemy_filters>>
dict_vars == <<include_arg, exclude_arg, options_arg, tree, instance_type, reads, default_options>>
handler_vars == <<handler, request, status, result, queries, stored, ran, values, memo, finished>>
vars == <<pc, instance, raised, call, filter_vars, dict_vars, handler_vars, columns>>

---------------------------------------------------------------------------
(* Python values *)

None == [kind |-> "none", v |-> 0]
IntV(n) == [kind |-> "int", v |-> n]
StrV(s) == [kind |-> "str", v |-> s]
BoolV(b) == [kind |-> "bool", v |-> b]
\* a float, held in tenths: FloatV(32) is 3.2
FloatV(n) == [kind |-> "float", v |-> n]
EntV(id) == [kind |-> "ent", v |-> id]
ListV(s) == [kind |-> "list", v |-> s]

---------------------------------------------------------------------------
(* The mapped classes: Person and Computer of the test suite, with the     *)
(* to-one relations friend and pet (and the class Pet) added so that a     *)
(* relation of a relation of a relation exists.  Pet has an association    *)
(* proxy, owner_name, to the name of its owner.  Shelter has a dynamic     *)
(* relationship, pets: reading it returns a Query.                         *)

Models == {"Person", "Computer", "Pet"}

\* attribute names in mapper order; uselist tells a collection from a scalar reference,
\* collectionname whether the class defines __collectionname__
Schema ==
    [Person |->
        [columns |-> <<"_id", "name", "birth">>,
         relations |-> <<"computers", "friend", "pet">>,
         proxies |-> <<>>,
         hybrids |-> <<"age">>,
         target |-> [computers |-> "Computer", friend |-> "Person", pet |-> "Pet"],
         uselist |-> [computers |-> TRUE, friend |-> FALSE, pet |-> FALSE],
         collectionname |-> FALSE],
     Computer |->
        [columns |-> <<"_id", "cpu", "ram", "_user">>,
         relations |-> <<"user">>,
         proxies |-> <<>>,
         hybrids |-> <<>>,
         target |-> [user |-> "Person"],
         uselist |-> [user |-> FALSE],
         collectionname |-> FALSE],
     Pet |->
        [columns |-> <<"_id", "name">>,
         relations |-> <<"owner">>,
         proxies |-> <<"owner_name">>,
         hybrids |-> <<>>,
         target |-> [owner |-> "Person"],
         uselist |-> [owner |-> FALSE],
         collectionname |-> TRUE],
     Shelter |->
        [columns |-> <<"_id", "name">>,
         relations |-> <<"pets">>,
         proxies |-> <<>>,
         hybrids |-> <<>>,
         target |-> [pets |-> "Pet"],
         uselist |-> [pets |-> TRUE],
         collectionname |-> FALSE]]

Range(s) == {s[i] : i \in 1..Len(s)}

get_columns(m) == Range(Schema[m].columns)
get_relations(m) == Range(Schema[m].relations)
get_proxies(m) == Range(Schema[m].proxies)
get_hybrids(m) == Range(Schema[m].hybrids)

\* the names getattr(model, name) resolves on a mapped class
ClassAttrs(m) == get_columns(m) \cup get_relations(m) \cup get_proxies(m) \cup get_hybrids(m)

\* the variables of to_dict, for the scenarios that do not call it
DictIdle ==
    /\ include_arg = None
    /\ exclude_arg = None
    /\ options_arg = [shared |-> TRUE, d |-> <<>>]
    /\ tree = None
    /\ instance_type = None
    /\ reads = {}
    /\ default_options = <<>>

\* the variables of to_filter, for the scenarios that do not call it
FilterIdle ==
    /\ filters = <<>>
    /\ order_by = <<>>
    /\ alchemy_filters = <<>>

\* the variables of the handler, for the scenarios without a request
HandlerIdle ==
    /\ handler = <<>>
    /\ request = <<>>
    /\ status = 0
    /\ result = None
    /\ queries = <<>>
    /\ stored = <<>>
    /\ ran = <<>>
    /\ values = <<>>
    /\ memo = [kind |-> "absent", v |-> 0]
    /\ columns = None
    /\ finished = 0

---------------------------------------------------------------------------
(* convert.to_filter                                                       *)
(*                                                                         *)
(* A filter dict is a function from its keys to their values.  A name is   *)
(* the sequence of its tokens, the separators "." and "__" being tokens of *)
(* their own: "computers.cpu" is <<"computers", ".", "cpu">>.              *)
(* An expression is [kind, left, right]: kind names the SQLAlchemy call    *)
(* that built it, left the operand it was called on.                       *)

Expr(k, l, r) == [kind |-> k, left |-> l, right |-> r]
Lit(v) == [rk |-> "lit", v |-> v]
Exprs(s) == [rk |-> "exprs", v |-> s]
AttrRef(l) == [rk |-> "attr", v |-> l]

Ok(e) == [err |-> "none", expr |-> e]
Raise(e) == [err |-> e, expr |-> Expr("none", None, None)]

\* getattr(instance, name) on a mapped class
AttrClass(m, a) ==
    IF a \in get_columns(m) THEN "column"
    ELSE IF a \in get_relations(m) THEN "relation"
    ELSE IF a \in get_hybrids(m) THEN "hybrid"
    ELSE "proxy"
Attr(m, a) == [cls |-> AttrClass(m, a), model |-> m, attr |-> a]
Self(m) == [cls |-> "self", model |-> m, attr |-> "~"]

\* str.replace("__", ".") on a name
ReplaceSep(name) == [i \in 1..Len(name) |-> IF name[i] = "__" THEN "." ELSE name[i]]
\* '"__" in name or "." in name'
HasSep(name) == \E i \in 1..Len(name) : name[i] \in {".", "__"}
FirstSep(name) == CHOOSE i \in 1..Len(name) :
    /\ ReplaceSep(name)[i] = "."
    /\ \A j \in 1..(i - 1) : ReplaceSep(name)[j] # "."
\* the text of a name without separator: one token, or the empty string
Text(toks) == IF Len(toks) = 1 THEN toks[1] ELSE ""
\* str.partition("."): the relation before the first separator, the rest after it
PartitionHead(name) == Text(SubSeq(ReplaceSep(name), 1, FirstSep(name) - 1))
PartitionTail(name) == SubSeq(ReplaceSep(name), FirstSep(name) + 1, Len(name))

\* attributes every SQLAlchemy column comparator has beyond the operator table
\* (sqlalchemy.sql.operators.ColumnOperators), as far as the model draws them
ComparatorAttrs == {"concat", "collate", "distinct"}

\* isinstance(right, list)
IsList(right) == right.rk = "exprs" \/ (right.rk = "lit" /\ right.v.kind = "list")

\* left.any(*right): RelationshipProperty.Comparator.any is defined for collections only
rel_any(left, right) ==
    IF left.cls = "relation" /\ ~Schema[left.model].uselist[left.attr]
    THEN Raise("InvalidRequestError")
    ELSE Ok(Expr("any", left, right))

\* left.has(right): RelationshipProperty.Comparator.has is defined for scalar references only
rel_has(left, right) ==
    IF left.cls = "relation" /\ Schema[left.model].uselist[left.attr]
    THEN Raise("InvalidRequestError")
    ELSE Ok(Expr("has", left, right))

\* left.between(*right)
between(left, right) ==
    IF right.rk = "lit" /\ right.v.kind = "list" /\ Len(right.v.v) = 2
    THEN Ok(Expr("between", left, right))
    ELSE Raise("TypeError")

\* getattr(left, op)() with the null placement of the filter entry
ordering(op, left, f) ==
    IF "nullsfirst" \in DOMAIN f /\ f["nullsfirst"]
    THEN Ok(Expr(op, left, Lit(StrV("nullsfirst"))))
    ELSE IF "nullslast" \in DOMAIN f /\ f["nullslast"]
    THEN Ok(Expr(op, left, Lit(StrV("nullslast"))))
    ELSE Ok(Expr(op, left, Lit(None)))

\* getattr(left, right), called when method is TRUE
attr_is(left, right, method) ==
    IF right.rk # "lit" \/ right.v.kind # "str" THEN Raise("TypeError")
    ELSE IF left.cls # "self" \/ right.v.v \notin ClassAttrs(left.model) THEN Raise("AttributeError")
    ELSE IF method THEN Raise("TypeError")
    ELSE Ok(Expr("attr", left, right))

HasComparatorAttr_Always(left, op) == TRUE
\* hasattr(left.comparator, op)
HasComparatorAttr(left, op) == op \in ComparatorAttrs

\* the alias lists of the comparison operators
OpsEq == {"==", "eq", "equals", "equals_to"}
OpsNe == {"!=", "ne", "neq", "not_equal_to", "does_not_equal"}
OpsGt == {">", "gt"}
OpsLt == {"<", "lt"}
OpsGe_Typo == {">=", "ge", "geq"}
OpsGe == {">=", "ge", "gte", "geq"}
OpsLe == {"<=", "le", "lte", "leq"}

\* the operator chain of to_filter, in the order of the code
apply_op_ge(op, left, right, f) ==
    IF op \in OpsGe THEN Ok(Expr("ge", left, right))
    ELSE IF op \in OpsLe THEN Ok(Expr("le", left, right))
    ELSE IF op \in {"ilike"} THEN Ok(Expr("ilike", left, right))
    ELSE IF op \in {"not_ilike"} THEN Ok(Expr("notilike", left, right))
    ELSE IF op \in {"like"} THEN Ok(Expr("like", left, right))
    ELSE IF op \in {"not_like"} THEN Ok(Expr("notlike", left, right))
    ELSE IF op \in {"match"} THEN Ok(Expr("match", left, right))
    ELSE IF op \in {"in"} THEN Ok(Expr("in_", left, right))
    ELSE IF op \in {"not_in"} THEN Ok(Expr("notin_", left, right))
    ELSE IF op \in {"has"} /\ IsList(right) THEN rel_any(left, right)
    ELSE IF op \in {"has"} THEN rel_has(left, right)
    ELSE IF op \in {"any"} THEN rel_any(left, right)
    ELSE IF op \in {"between"} THEN between(left, right)
    ELSE IF op \in {"contains"} THEN Ok(Expr("contains", left, right))
    ELSE IF op \in {"startswith"} THEN Ok(Expr("startswith", left, right))
    ELSE IF op \in {"endswith"} THEN Ok(Expr("endswith", left, right))
    ELSE IF op \in {"asc", "desc"} THEN ordering(op, left, f)
    ELSE IF op \in {"attr_is"} THEN attr_is(left, right, FALSE)
    ELSE IF op \in {"method_is"} THEN attr_is(left, right, TRUE)
    ELSE IF HasComparatorAttr(left, op) THEN Ok(Expr("comparator." \o op, left, right))
    ELSE Raise("IllegalArgumentError")

apply_op(op, left, right, f) ==
    IF op \in {"is_null"} THEN Ok(Expr("is_", left, Lit(None)))
    ELSE IF op \in {"is_not_null"} THEN Ok(Expr("isnot", left, Lit(None)))
    ELSE IF op \in {"is"} THEN Ok(Expr("is_", left, right))
    ELSE IF op \in {"is_not"} THEN Ok(Expr("isnot", left, right))
    ELSE IF op \in OpsEq THEN Ok(Expr("eq", left, right))
    ELSE IF op \in OpsNe THEN Ok(Expr("ne", left, right))
    ELSE IF op \in OpsGt THEN Ok(Expr("gt", left, right))
    ELSE IF op \in OpsLt THEN Ok(Expr("lt", left, right))
    ELSE apply_op_ge(op, left, right, f)

\* the right operand of a filter entry: another field, a literal, or None
resolve_right(m, f) ==
    IF "field" \in DOMAIN f THEN AttrRef(Attr(m, f["field"]))
    ELSE IF "val" \in DOMAIN f THEN Lit(f["val"])
    ELSE IF "value" \in DOMAIN f THEN Lit(f["value"])
    ELSE Lit(None)

RECURSIVE rewrite_orders_NoPlacement(_, _, _)
rewrite_orders_NoPlacement(argument_orders, i, acc) ==
    IF i > Len(argument_orders) THEN [err |-> "none", entries |-> acc]
    ELSE LET o == argument_orders[i] IN
         IF "direction" \notin DOMAIN o THEN [err |-> "KeyError", entries |-> acc]
         ELSE IF o["direction"] \notin {"asc", "desc"}
              THEN [err |-> "IllegalArgumentError", entries |-> acc]
         ELSE IF "field" \notin DOMAIN o THEN [err |-> "KeyError", entries |-> acc]
         ELSE rewrite_orders_NoPlacement(argument_orders, i + 1,
                Append(acc, [name |-> o["field"], op |-> o["direction"],
                             nullsfirst |-> FALSE, nullslast |-> FALSE]))

\* the order entries rewritten as filter entries, up to the first one that raises
RECURSIVE rewrite_orders(_, _, _)
rewrite_orders(argument_orders, i, acc) ==
    IF i > Len(argument_orders) THEN [err |-> "none", entries |-> acc]
    ELSE LET o == argument_orders[i] IN
         IF "direction" \notin DOMAIN o THEN [err |-> "KeyError", entries |-> acc]
         ELSE IF o["direction"] \notin {"asc", "desc"}
              THEN [err |-> "IllegalArgumentError", entries |-> acc]
         ELSE IF "field" \notin DOMAIN o THEN [err |-> "KeyError", entries |-> acc]
         ELSE rewrite_orders(argument_orders, i + 1,
                Append(acc, [name |-> o["field"], op |-> o["direction"],
                             nullsfirst |-> IF "nullsfirst" \in DOMAIN o THEN o["nullsfirst"] ELSE FALSE,
                             nullslast |-> IF "nullslast" \in DOMAIN o THEN o["nullslast"] ELSE FALSE]))

RECURSIVE to_filter(_, _, _)
RECURSIVE compile_one(_, _)
RECURSIVE compile_loop(_, _, _, _)

\* one pass of the loop over argument_filters: [err, expr, f], f the entry as the
\* pass leaves it (a relation path overwrites its name, before the recursive call)
compile_one(m, f) ==
    IF "field" \in DOMAIN f /\ f["field"] \notin ClassAttrs(m)
    THEN [err |-> "AttributeError", expr |-> Raise("x").expr, f |-> f]
    ELSE IF "op" \notin DOMAIN f
    THEN [err |-> "KeyError", expr |-> Raise("x").expr, f |-> f]
    ELSE IF "name" \notin DOMAIN f
    THEN [err |-> "IllegalArgumentError", expr |-> Raise("x").expr, f |-> f]
    ELSE IF HasSep(f["name"])
    THEN LET relation == PartitionHead(f["name"])
             f1 == [f EXCEPT !["name"] = PartitionTail(f["name"])]
         IN  IF relation \notin ClassAttrs(m)
             THEN [err |-> "AttributeError", expr |-> Raise("x").expr, f |-> f]
             ELSE IF relation \notin get_relations(m)
             THEN [err |-> "AttributeError", expr |-> Raise("x").expr, f |-> f1]
             ELSE LET sub == to_filter(Schema[m].target[relation], <<f1>>, <<>>)
                      r == apply_op("has", Attr(m, relation), Exprs(sub.exprs), sub.filters[1])
                  IN  IF sub.err # "none"
                      THEN [err |-> sub.err, expr |-> Raise("x").expr, f |-> sub.filters[1]]
                      ELSE [err |-> r.err, expr |-> r.expr, f |-> sub.filters[1]]
    ELSE IF f["name"] = <<"~">>
    THEN LET r == apply_op("attr_is", Self(m), resolve_right(m, f), f)
         IN  [err |-> r.err, expr |-> r.expr, f |-> f]
    ELSE IF Text(f["name"]) \notin ClassAttrs(m)
    THEN [err |-> "AttributeError", expr |-> Raise("x").expr, f |-> f]
    ELSE LET r == apply_op(f["op"], Attr(m, Text(f["name"])), resolve_right(m, f), f)
         IN  [err |-> r.err, expr |-> r.expr, f |-> f]

\* the loop over argument_filters from entry i on: [err, exprs, afs]
compile_loop(m, afs, i, acc) ==
    IF i > Len(afs) THEN [err |-> "none", exprs |-> acc, afs |-> afs]
    ELSE LET r == compile_one(m, afs[i])
             afs1 == [afs EXCEPT ![i] = r.f]
         IN  IF r.err # "none" THEN [err |-> r.err, exprs |-> <<>>, afs |-> afs1]
             ELSE compile_loop(m, afs1, i + 1, Append(acc, r.expr))

\* to_filter(instance, filters, order_by): [err, exprs, filters], filters being the
\* caller's list after the call.  A non-empty filters list is the list the order
\* entries are appended to; an empty one is replaced by a fresh list.
to_filter(m, fs, obs) ==
    LET orders == rewrite_orders(obs, 1, <<>>)
        argument_filters == fs \o orders.entries
        r == compile_loop(m, argument_filters, 1, <<>>)
    IN  IF orders.err # "none"
        THEN [err |-> orders.err, exprs |-> <<>>,
              filters |-> IF fs # <<>> THEN argument_filters ELSE fs]
        ELSE [err |-> r.err, exprs |-> r.exprs,
              filters |-> IF fs # <<>> THEN r.afs ELSE fs]

---------------------------------------------------------------------------
(* The scenario of to_filter: Init draws the arguments, Compile calls it.  *)

\* the longest relation path of a drawn name, in relations
MaxDepth == 2
\* the longest drawn filters list and order_by list
MaxFilters == 2
MaxOrders == 1

TableOps ==
    {"is_null", "is_not_null", "is", "is_not",
     "==", "eq", "equals", "equals_to",
     "!=", "ne", "neq", "not_equal_to", "does_not_equal",
     ">", "gt", "<", "lt", ">=", "ge", "gte", "geq", "<=", "le", "lte", "leq",
     "ilike", "not_ilike", "like", "not_like", "match", "in", "not_in",
     "has", "any", "between", "contains", "startswith", "endswith",
     "asc", "desc", "attr_is", "method_is"}

\* the operators the scenario draws: the table, two comparator methods, an unknown one
DrawnOps == TableOps \cup {"concat", "collate", "frobnicate"}

\* the names of the columns and hybrids of m, each one token
FieldNames(m) == {<<a>> : a \in get_columns(m) \cup get_hybrids(m)}

\* the names that reach a field of m over at most d relations
RECURSIVE Paths(_, _)
Paths(m, d) ==
    FieldNames(m) \cup
    (IF d = 0 THEN {}
     ELSE UNION {{<<r, sep>> \o p : sep \in {".", "__"}, p \in Paths(Schema[m].target[r], d - 1)}
                 : r \in get_relations(m)})

LitFilters(m) ==
    {[name |-> n, op |-> o, val |-> StrV("Bernd")] : n \in Paths(m, MaxDepth), o \in DrawnOps}

\* entries with other keys: no operand, 'value', 'field', an unknown field, no op,
\* no name, the self reference, a name that is no attribute, a relation as a field
OtherFilters(m) ==
    {[name |-> <<"name">>, op |-> "is_null"],
     [name |-> <<"_id">>, op |-> "eq", value |-> IntV(1)],
     [name |-> <<"_id">>, op |-> "lt", field |-> "name"],
     [name |-> <<"_id">>, op |-> "lt", field |-> "nope"],
     [name |-> <<"_id">>, val |-> IntV(1)],
     [op |-> "eq", val |-> IntV(1)],
     [name |-> <<"~">>, op |-> "frobnicate", val |-> StrV("name")],
     [name |-> <<"nope">>, op |-> "eq", val |-> IntV(1)],
     [name |-> <<"name", ".", "x">>, op |-> "eq", val |-> IntV(1)],
     [name |-> <<"_id">>, op |-> "between", val |-> ListV(<<IntV(1), IntV(2)>>)],
     [name |-> <<"_id">>, op |-> "desc"]}

Orders ==
    {[field |-> <<"name">>, direction |-> "asc"],
     [field |-> <<"_id">>, direction |-> "desc", nullsfirst |-> TRUE],
     [field |-> <<"_id">>, direction |-> "asc", nullslast |-> TRUE],
     [field |-> <<"name">>, direction |-> "up"],
     [field |-> <<"name">>]}

SeqsUpTo(S, n) == UNION {[1..k -> S] : k \in 0..n}

InitFilter ==
    /\ pc = "ready"
    /\ instance \in {"Person", "Computer"}
    /\ \/ /\ filters \in {<<f>> : f \in LitFilters(instance)}
          /\ order_by = <<>>
       \/ /\ filters \in SeqsUpTo(OtherFilters(instance), MaxFilters)
          /\ order_by \in SeqsUpTo(Orders, MaxOrders)
    /\ call = [instance |-> instance, filters |-> filters, order_by |-> order_by]
    /\ alchemy_filters = <<>>
    /\ raised = "none"
    /\ DictIdle
    /\ HandlerIdle

Compile ==
    /\ pc = "ready"
    /\ LET r == to_filter(instance, filters, order_by)
       IN  /\ alchemy_filters' = r.exprs
           /\ raised' = r.err
           /\ filters' = r.filters
    /\ pc' = "done"
    /\ UNCHANGED <<columns, instance, order_by, call, dict_vars, handler_vars>>

NextFilter == Compile

SpecFilter == InitFilter /\ [][NextFilter]_vars

---------------------------------------------------------------------------
(* Claims about to_filter, checked under SpecFilter *)

\* the call compiled one filter {name, op, val} whose name reaches a field of the model
OneFieldFilter ==
    /\ pc = "done"
    /\ Len(call.filters) = 1
    /\ call.filters[1] \in LitFilters(instance)
    /\ call.order_by = <<>>

TheFilter == call.filters[1]

Canonical(op) ==
    IF op \in {"==", "eq", "equals", "equals_to"} THEN "=="
    ELSE IF op \in {"!=", "ne", "neq", "not_equal_to", "does_not_equal"} THEN "!="
    ELSE IF op \in {">", "gt"} THEN ">"
    ELSE IF op \in {"<", "lt"} THEN "<"
    ELSE IF op \in {">=", "ge", "gte", "geq"} THEN ">="
    ELSE IF op \in {"<=", "le", "lte", "leq"} THEN "<="
    ELSE op

\* C2: a filter with an alias compiles to what the same filter with the canonical
\* operator of the alias compiles to, the same expressions or the same failure.
C2_AliasesCompileAsCanonical ==
    OneFieldFilter =>
        LET canon == to_filter(instance, <<[TheFilter EXCEPT !["op"] = Canonical(TheFilter["op"])]>>, <<>>)
        IN  /\ raised = canon.err
            /\ alchemy_filters = canon.exprs

C2_Witness ==
    /\ OneFieldFilter
    /\ TheFilter["op"] = "gte"
    /\ TheFilter["name"] = <<"computers", "__", "ram">>
    /\ raised = "none"
    /\ alchemy_filters[1].kind = "any"
    /\ alchemy_filters[1].right.v[1].kind = "ge"

\* C9 as stated: a relation path 'rel.field' compiles to exactly one relational
\* predicate on rel that wraps what the rest of the path compiles to on rel's target.
C9_RelationPathCompilesToRelationalPredicate ==
    (OneFieldFilter /\ HasSep(TheFilter["name"]) /\ TheFilter["op"] \in OpsEq \cup OpsGt \cup OpsLe)
        => LET rel == PartitionHead(TheFilter["name"])
               inner == to_filter(Schema[instance].target[rel],
                                  <<[TheFilter EXCEPT !["name"] = PartitionTail(TheFilter["name"])]>>, <<>>)
           IN  /\ raised = "none"
               /\ Len(alchemy_filters) = 1
               /\ alchemy_filters[1].kind \in {"has", "any"}
               /\ alchemy_filters[1].left = Attr(instance, rel)
               /\ alchemy_filters[1].right = Exprs(inner.exprs)

---------------------------------------------------------------------------
(* The session: the instances to_dict and the executor read.  attrs holds  *)
(* what getattr returns for each attribute, loaded the keys of             *)
(* instance.__dict__.                                                      *)

DictV(pairs) == [kind |-> "dict", v |-> pairs]
QueryV(s) == [kind |-> "query", v |-> s]
\* an attribute whose read raises
RaisesV(e) == [kind |-> "raises", v |-> e]
\* an instance of a class that is neither a container nor mapped
ObjV(type) == [kind |-> "obj", v |-> type]
DateTimeV(y, mo, d, h, mi, sec, us) ==
    [kind |-> "datetime", v |-> [y |-> y, mo |-> mo, d |-> d, h |-> h, mi |-> mi, s |-> sec, us |-> us]]
DateV(y, mo, d) == [kind |-> "date", v |-> [y |-> y, mo |-> mo, d |-> d]]
TimeV(h, mi, sec, us) == [kind |-> "time", v |-> [h |-> h, mi |-> mi, s |-> sec, us |-> us]]

Store ==
    [p1 |-> [model |-> "Person",
             attrs |-> [_id |-> IntV(1), name |-> StrV("Anastacia"),
                        birth |-> DateTimeV(1982, 11, 3, 9, 5, 0, 0), age |-> FloatV(440),
                        computers |-> ListV(<<EntV("c1"), EntV("c2")>>),
                        friend |-> EntV("p2"), pet |-> EntV("t1")],
             loaded |-> {"_id", "name", "birth"}],
     p2 |-> [model |-> "Person",
             attrs |-> [_id |-> IntV(2), name |-> StrV("Bernd"),
                        birth |-> DateTimeV(1978, 1, 31, 23, 59, 58, 250000), age |-> FloatV(487),
                        computers |-> ListV(<<EntV("c3")>>),
                        friend |-> EntV("p1"), pet |-> None],
             loaded |-> {"_id", "name", "birth", "friend"}],
     p3 |-> [model |-> "Person",
             attrs |-> [_id |-> IntV(3), name |-> StrV("Claudia"),
                        birth |-> DateTimeV(1982, 1, 15, 0, 0, 0, 0), age |-> FloatV(448),
                        computers |-> ListV(<<>>),
                        friend |-> None, pet |-> None],
             loaded |-> {"_id", "name", "birth", "computers", "friend", "pet"}],
     c1 |-> [model |-> "Computer",
             attrs |-> [_id |-> IntV(1), cpu |-> FloatV(32), ram |-> FloatV(40),
                        _user |-> IntV(1), user |-> EntV("p1")],
             loaded |-> {"_id", "cpu", "ram", "_user", "user"}],
     c2 |-> [model |-> "Computer",
             attrs |-> [_id |-> IntV(2), cpu |-> FloatV(120), ram |-> FloatV(40),
                        _user |-> IntV(1), user |-> EntV("p1")],
             loaded |-> {"_id", "cpu", "ram", "_user"}],
     c3 |-> [model |-> "Computer",
             attrs |-> [_id |-> IntV(3), cpu |-> FloatV(120), ram |-> FloatV(80),
                        _user |-> IntV(2), user |-> EntV("p2")],
             loaded |-> {"_id", "cpu", "ram", "_user"}],
     \* the computer a POST of the scenario creates, as refresh loads it
     c4 |-> [model |-> "Computer",
             attrs |-> [_id |-> IntV(4), cpu |-> FloatV(134), ram |-> FloatV(134),
                        _user |-> IntV(2), user |-> EntV("p2")],
             loaded |-> {"_id", "cpu", "ram", "_user"}],
     t1 |-> [model |-> "Pet",
             attrs |-> [_id |-> IntV(1), name |-> StrV("Rex"), owner |-> EntV("p1"),
                        owner_name |-> StrV("Anastacia")],
             loaded |-> {"_id", "name"}],
     \* a pet without an owner: the proxy reads the name of None
     t2 |-> [model |-> "Pet",
             attrs |-> [_id |-> IntV(2), name |-> StrV("Stray"), owner |-> None,
                        owner_name |-> RaisesV("AttributeError")],
             loaded |-> {"_id", "name"}],
     \* a shelter: its pets are a Query, as a dynamic relationship returns
     s1 |-> [model |-> "Shelter",
             attrs |-> [_id |-> IntV(1), name |-> StrV("Asyl"),
                        pets |-> QueryV(<<EntV("t1"), EntV("t2")>>)],
             loaded |-> {"_id", "name"}]]

Ids == DOMAIN Store

---------------------------------------------------------------------------
(* isoformat of datetime, date and time                                    *)

DigitChars == <<"0", "1", "2", "3", "4", "5", "6", "7", "8", "9">>

\* n in decimal, zero-padded to w digits
RECURSIVE Pad(_, _)
Pad(n, w) == IF w = 0 THEN "" ELSE Pad(n \div 10, w - 1) \o DigitChars[(n % 10) + 1]

iso_date(d) == Pad(d.y, 4) \o "-" \o Pad(d.mo, 2) \o "-" \o Pad(d.d, 2)
iso_time(t) ==
    Pad(t.h, 2) \o ":" \o Pad(t.mi, 2) \o ":" \o Pad(t.s, 2)
        \o (IF t.us = 0 THEN "" ELSE "." \o Pad(t.us, 6))

isoformat(x) ==
    IF x.kind = "date" THEN iso_date(x.v)
    ELSE IF x.kind = "time" THEN iso_time(x.v)
    ELSE iso_date(x.v) \o "T" \o iso_time(x.v)

---------------------------------------------------------------------------
(* convert.to_deep and convert.to_dict                                     *)
(*                                                                         *)
(* A dict (an include or exclude spec, a map-like instance, a returned     *)
(* map) is DictV of the sequence of its <<key, value>> pairs in insertion  *)
(* order.  The state a call threads is st = [reads, dflt]: the attribute   *)
(* reads done so far as <<id, attribute>> pairs, and the content of the    *)
(* defaultdict that is the default value of the parameter options.         *)

Keys(d) == {d.v[i][1] : i \in 1..Len(d.v)}
Get(d, k) == d.v[CHOOSE i \in 1..Len(d.v) : d.v[i][1] = k][2]
Put(d, k, x) ==
    IF k \in Keys(d)
    THEN DictV([i \in 1..Len(d.v) |-> IF d.v[i][1] = k THEN <<k, x>> ELSE d.v[i]])
    ELSE DictV(Append(d.v, <<k, x>>))

__basetypes__ == {"str", "int", "bool", "float"}
__datetypes__ == {"datetime", "time", "date"}

False == BoolV(FALSE)
True == BoolV(TRUE)

\* options as passed: the shared default (d unused), or a dict of the caller
DefaultOptions == [shared |-> TRUE, d |-> <<>>]
Options(d) == [shared |-> FALSE, d |-> d]

OptionsDict(options, st) == IF options.shared THEN st.dflt ELSE options.d
\* options.get(key, True)
options_get(options, st, key) ==
    IF key \in DOMAIN OptionsDict(options, st) THEN OptionsDict(options, st)[key] ELSE TRUE

\* options[key]: [err, val, st]; the defaultdict inserts a missing key as False
options_item(options, st, key) ==
    IF key \in DOMAIN OptionsDict(options, st)
    THEN [err |-> "none", val |-> OptionsDict(options, st)[key], st |-> st]
    ELSE IF options.shared
    THEN [err |-> "none", val |-> FALSE, st |-> [st EXCEPT !.dflt = (key :> FALSE) @@ @]]
    ELSE [err |-> "KeyError", val |-> FALSE, st |-> st]

\* to_deep(include, exclude, key): [err, include, exclude, mutated], mutated being
\* the include argument after include.setdefault(key, False)
to_deep_OneMore(include, exclude, key) ==
    [err |-> "none", include |-> IF include = None THEN True ELSE False,
     exclude |-> None, mutated |-> include]
to_deep(include, exclude, key) ==
    LET inc == IF include.kind = "dict"
               THEN (IF key \in Keys(include) THEN Get(include, key) ELSE False)
               ELSE False
        mutated == IF include.kind = "dict" /\ key \notin Keys(include)
                   THEN Put(include, key, False) ELSE include
    IN  IF exclude.kind = "dict"
        THEN IF key \in Keys(exclude)
             THEN [err |-> "none", include |-> inc, exclude |-> Get(exclude, key), mutated |-> mutated]
             ELSE [err |-> "KeyError", include |-> inc, exclude |-> None, mutated |-> mutated]
        ELSE [err |-> "none", include |-> inc, exclude |-> None, mutated |-> mutated]

\* isinstance(include, collections.Iterable)
IsIterable(x) == x.kind \in {"dict", "list", "str"}
\* the names 'for column in include' yields
IterNames(x) ==
    IF x.kind = "dict" THEN [i \in 1..Len(x.v) |-> x.v[i][1]]
    ELSE IF x.kind = "list" THEN [i \in 1..Len(x.v) |-> x.v[i].v]
    ELSE <<>>
\* 'column in exclude' for an exclude that is not None
Contains(x, column) ==
    IF x.kind = "dict" THEN column \in Keys(x)
    ELSE IF x.kind = "list" THEN \E i \in 1..Len(x.v) : x.v[i] = StrV(column)
    ELSE FALSE

\* getattr(instance, column) on an instance: [err, val]
getattr_instance(inst, column) ==
    IF inst.kind = "ent" /\ column \in DOMAIN Store[inst.v].attrs
    THEN IF Store[inst.v].attrs[column].kind = "raises"
         THEN [err |-> Store[inst.v].attrs[column].v, val |-> None]
         ELSE [err |-> "none", val |-> Store[inst.v].attrs[column]]
    ELSE [err |-> "AttributeError", val |-> None]

\* 'column in instance.__dict__': loaded with the instance, or read since
InDict(inst, column, st) ==
    /\ column \notin get_hybrids(Store[inst.v].model)
    /\ column \notin get_proxies(Store[inst.v].model)
    /\ (column \in Store[inst.v].loaded \/ <<inst.v, column>> \in st.reads)

\* chain(columns, relations, proxies, hybrids, attributes)
Attributes(m) ==
    Schema[m].columns \o Schema[m].relations \o Schema[m].proxies \o Schema[m].hybrids
        \o Schema[m].columns \o Schema[m].relations

BothGiven_Never(include, exclude) == FALSE
\* 'exclude is not None and include is not None'
BothGiven(include, exclude) == exclude # None /\ include # None

\* the base cases of to_dict: None, the base types, the date types
IsLeaf(inst) == inst = None \/ inst.kind \in __basetypes__ \/ inst.kind \in __datetypes__
leaf_Identity(inst) == inst
leaf(inst) ==
    IF inst = None THEN None
    ELSE IF inst.kind \in __basetypes__ THEN inst
    ELSE StrV(isoformat(inst))

\* errors.DictConvertionError(instance_type, log_message=None, status_code=400)
DictConvertionError(type, log_message) ==
    [instance_type |-> type, log_message |-> log_message, status_code |-> 400]
\* a class, as type(x) gives it
TypeV(name) == [kind |-> "type", v |-> name]
\* the exception object to_dict raises for an error of the model: the
\* DictConvertionError is built from the message alone, the other exceptions
\* have no instance_type
exception(err) ==
    IF err = "DictConvertionError"
    THEN DictConvertionError(StrV("Could not convert argument to plain dict"), None)
    ELSE [instance_type |-> None, log_message |-> None, status_code |-> 0]

Result(err, val, st, include) == [err |-> err, val |-> val, st |-> st, include |-> include]

RECURSIVE to_dict(_, _, _, _, _)
RECURSIVE dict_items(_, _, _, _, _, _, _)
RECURSIVE list_items(_, _, _, _, _, _, _)
RECURSIVE include_columns(_, _, _, _, _, _, _)
RECURSIVE all_attributes(_, _, _, _, _, _, _, _)

\* {k: to_dict(v, options=options, **to_deep(include, exclude, k)) for k, v in instance.items()}
dict_items(items, i, options, include, exclude, st, rtn) ==
    IF i > Len(items) THEN Result("none", DictV(rtn), st, include)
    ELSE LET k == items[i][1]
             deep == to_deep(include, exclude, k)
             r == to_dict(items[i][2], options, deep.include, deep.exclude, st)
             include1 == IF deep.mutated.kind = "dict"
                         THEN Put(deep.mutated, k, r.include) ELSE deep.mutated
         IN  IF deep.err # "none" THEN Result(deep.err, None, st, deep.mutated)
             ELSE IF r.err # "none" THEN Result(r.err, None, r.st, include1)
             ELSE dict_items(items, i + 1, options, include1, exclude, r.st,
                             Append(rtn, <<k, r.val>>))

\* [to_dict(x, options=options, include=include, exclude=exclude) for x in instance]
list_items(items, i, options, include, exclude, st, rtn) ==
    IF i > Len(items) THEN Result("none", ListV(rtn), st, include)
    ELSE LET r == to_dict(items[i], options, include, exclude, st)
         IN  IF r.err # "none" THEN Result(r.err, None, r.st, r.include)
             ELSE list_items(items, i + 1, options, r.include, exclude, r.st, Append(rtn, r.val))

\* for column in include: rtn[column] = to_dict(getattr(instance, column), **to_deep(...))
include_columns(inst, names, i, include, exclude, st, rtn) ==
    IF i > Len(names) THEN Result("none", rtn, st, include)
    ELSE LET column == names[i]
             node == getattr_instance(inst, column)
             st1 == [st EXCEPT !.reads = @ \cup {<<inst.v, column>>}]
             deep == to_deep(include, exclude, column)
             r == to_dict(node.val, DefaultOptions, deep.include, deep.exclude, st1)
             include1 == IF deep.mutated.kind = "dict"
                         THEN Put(deep.mutated, column, r.include) ELSE deep.mutated
         IN  IF node.err # "none" THEN Result(node.err, None, st1, include)
             ELSE IF deep.err # "none" THEN Result(deep.err, None, st1, deep.mutated)
             ELSE IF r.err # "none" THEN Result(r.err, None, r.st, include1)
             ELSE include_columns(inst, names, i + 1, include1, exclude, r.st, Put(rtn, column, r.val))

\* the loop 'for column in attributes' over a mapped instance
all_attributes(inst, attributes, i, options, include, exclude, st, rtn) ==
    IF i > Len(attributes) THEN Result("none", rtn, st, include)
    ELSE LET column == attributes[i]
             m == Store[inst.v].model
             node == getattr_instance(inst, column)
             st1 == [st EXCEPT !.reads = @ \cup {<<inst.v, column>>}]
             is_query == node.val.kind = "query"
             \* options['execute_queries'], evaluated for a Query only
             flag == IF is_query THEN options_item(options, st1, "execute_queries")
                     ELSE [err |-> "none", val |-> FALSE, st |-> st1]
             node1 == IF is_query /\ flag.val THEN ListV(node.val.v) ELSE node.val
             deep == to_deep(include, exclude, column)
             r == to_dict(node1, DefaultOptions, deep.include, deep.exclude, flag.st)
         IN  IF exclude # None /\ ~IsIterable(exclude)
             THEN Result("TypeError", None, st, include)
             ELSE IF exclude # None /\ Contains(exclude, column)
             THEN all_attributes(inst, attributes, i + 1, options, include, exclude, st, rtn)
             ELSE IF column \in Keys(rtn)
             THEN all_attributes(inst, attributes, i + 1, options, include, exclude, st, rtn)
             ELSE IF include = False /\ column \notin get_hybrids(m) /\ column \notin get_columns(m)
             THEN all_attributes(inst, attributes, i + 1, options, include, exclude, st, rtn)
             ELSE IF /\ ~InDict(inst, column, st)
                     /\ ~options_get(options, st, "execute_queries")
                     /\ (column \notin get_hybrids(m) \/ ~options_get(options, st, "execute_hybrids"))
             THEN all_attributes(inst, attributes, i + 1, options, include, exclude, st, rtn)
             ELSE IF node.err # "none" THEN Result(node.err, None, st1, include)
             ELSE IF include = False /\ is_query
             THEN all_attributes(inst, attributes, i + 1, options, include, exclude, st1, rtn)
             ELSE IF flag.err # "none" THEN Result(flag.err, None, flag.st, include)
             ELSE IF deep.err # "none" THEN Result(deep.err, None, flag.st, deep.mutated)
             ELSE IF r.err # "none" THEN Result(r.err, None, r.st, include)
             ELSE all_attributes(inst, attributes, i + 1, options, include, exclude, r.st,
                                 Put(rtn, column, r.val))

\* to_dict(instance, options, include, exclude) from the state st:
\* [err, val, st, include], include being the include argument after the call
to_dict(inst, options, include, exclude, st) ==
    IF BothGiven(include, exclude)
    THEN Result("ValueError", None, st, include)
    ELSE IF IsLeaf(inst)
    THEN Result("none", leaf(inst), st, include)
    ELSE IF inst.kind = "dict"
    THEN dict_items(inst.v, 1, options, include, exclude, st, <<>>)
    ELSE IF inst.kind \in {"list", "query"}
    THEN list_items(inst.v, 1, options, include, exclude, st, <<>>)
    ELSE IF IsIterable(include)
    THEN include_columns(inst, IterNames(include), 1, include, exclude, st, DictV(<<>>))
    ELSE IF inst.kind # "ent"
    THEN Result("DictConvertionError", None, st, include)
    ELSE all_attributes(inst, Attributes(Store[inst.v].model), 1, options, include, exclude, st,
                        DictV(<<>>))

---------------------------------------------------------------------------
(* wrapper.SessionedModelWrapper: the executor.  A query runs against the  *)
(* rows of Store (the test suite's SQLite database); an expression is      *)
(* evaluated on a row the way the SQL it stands for is.                    *)

\* the rows of each class in the order a query without ordering returns them
Table ==
    [Person |-> <<"p1", "p2", "p3">>, Computer |-> <<"c1", "c2", "c3">>, Pet |-> <<"t1">>]

\* the strings of the model in the order the collation sorts them
Collation == <<"", "Anastacia", "Bernd", "Claudia", "Rex", "x">>
StrIndex(x) == CHOOSE i \in 1..Len(Collation) : Collation[i] = x

IsNumber(x) == x.kind \in {"int", "float"}
\* a number in tenths
Num(x) == IF x.kind = "int" THEN 10 * x.v ELSE x.v
Same(a, b) == IF IsNumber(a) /\ IsNumber(b) THEN Num(a) = Num(b) ELSE a = b
\* the fields of a datetime, date or time from the most significant on
TimeFields == <<"y", "mo", "d", "h", "mi", "s", "us">>
\* the order of two values of one of these types
TupleLess(x, y) ==
    \E i \in 1..Len(TimeFields) :
        /\ TimeFields[i] \in DOMAIN x
        /\ x[TimeFields[i]] < y[TimeFields[i]]
        /\ \A j \in 1..(i - 1) : TimeFields[j] \in DOMAIN x => x[TimeFields[j]] = y[TimeFields[j]]
Less(a, b) ==
    IF IsNumber(a) THEN Num(a) < Num(b)
    ELSE IF a.kind = "str" THEN StrIndex(a.v) < StrIndex(b.v)
    ELSE TupleLess(a.v, b.v)

\* the instances an instance is related to over a relation
Related(id, rel) ==
    LET x == Store[id].attrs[rel]
    IN  IF x.kind \in {"list", "query"} THEN {x.v[i].v : i \in 1..Len(x.v)}
        ELSE IF x.kind = "ent" THEN {x.v}
        ELSE {}

\* the time at which the ages of Store were computed and the queries run
Now == DateTimeV(2026, 11, 3, 9, 5, 0, 0)

\* Person.age as an SQL expression, func.now() - birth: SQLite subtracts the
\* numeric prefixes of the two timestamps, which are their years
age_expression(id) ==
    IF Store[id].attrs["birth"] = None THEN None
    ELSE IntV(Now.v.y - Store[id].attrs["birth"].v.y)

\* the value the database computes for an attribute of a row: a hybrid by its
\* SQL expression, a column by the stored value
SqlValue(id, attr) ==
    IF attr \in get_hybrids(Store[id].model) THEN age_expression(id) ELSE Store[id].attrs[attr]

\* the value of the right operand on a row
RightValue(right, id) == IF right.rk = "attr" THEN SqlValue(id, right.v.attr) ELSE right.v

\* whether a row satisfies a predicate expression (a NULL result selects nothing);
\* the pattern and comparator predicates are not evaluated by the model
RECURSIVE Eval(_, _)
Eval(e, id) ==
    LET l == SqlValue(id, e.left.attr)
        r == RightValue(e.right, id)
    IN  CASE e.kind = "is_" -> IF r = None THEN l = None ELSE l # None /\ Same(l, r)
          [] e.kind = "isnot" -> IF r = None THEN l # None ELSE l = None \/ ~Same(l, r)
          [] e.kind = "eq" -> IF r = None THEN l = None ELSE l # None /\ Same(l, r)
          [] e.kind = "ne" -> IF r = None THEN l # None ELSE l # None /\ ~Same(l, r)
          [] e.kind = "gt" -> l # None /\ r # None /\ Less(r, l)
          [] e.kind = "lt" -> l # None /\ r # None /\ Less(l, r)
          [] e.kind = "ge" -> l # None /\ r # None /\ ~Less(l, r)
          [] e.kind = "le" -> l # None /\ r # None /\ ~Less(r, l)
          [] e.kind = "in_" -> l # None /\ \E i \in 1..Len(r.v) : r.v[i] # None /\ Same(l, r.v[i])
          [] e.kind = "between" ->
                l # None /\ r.v[1] # None /\ r.v[2] # None /\ ~Less(l, r.v[1]) /\ ~Less(r.v[2], l)
          [] e.kind \in {"any", "has"} /\ e.right.rk = "exprs" ->
                \E x \in Related(id, e.left.attr) : \A i \in 1..Len(e.right.v) : Eval(e.right.v[i], x)

\* _is_ordering_expression
_is_ordering_expression(e) == e.kind \in {"asc", "desc"}

\* whether row a comes strictly before row b under one ordering expression;
\* without nullsfirst or nullslast SQLite sorts NULL as the smallest value
Precedes(e, a, b) ==
    LET x == SqlValue(a, e.left.attr)
        y == SqlValue(b, e.left.attr)
        nulls_first == IF e.right.v = StrV("nullsfirst") THEN TRUE
                       ELSE IF e.right.v = StrV("nullslast") THEN FALSE
                       ELSE e.kind = "asc"
    IN  IF x = None \/ y = None
        THEN IF nulls_first THEN x = None /\ y # None ELSE x # None /\ y = None
        ELSE IF e.kind = "asc" THEN Less(x, y) ELSE Less(y, x)

\* whether row a comes strictly before row b under the ordering expressions in order
RECURSIVE Before(_, _, _, _)
Before(orderings, i, a, b) ==
    IF i > Len(orderings) THEN FALSE
    ELSE IF Precedes(orderings[i], a, b) THEN TRUE
    ELSE IF Precedes(orderings[i], b, a) THEN FALSE
    ELSE Before(orderings, i + 1, a, b)

\* rows sorted by the ordering expressions, rows that tie keeping their order
RECURSIVE Insert(_, _, _)
Insert(sorted, x, orderings) ==
    IF sorted = <<>> THEN <<x>>
    ELSE IF Before(orderings, 1, x, sorted[Len(sorted)])
    THEN Append(Insert(SubSeq(sorted, 1, Len(sorted) - 1), x, orderings), sorted[Len(sorted)])
    ELSE Append(sorted, x)
RECURSIVE SortFirst(_, _, _)
SortFirst(rows, n, orderings) ==
    IF n = 0 THEN <<>> ELSE Insert(SortFirst(rows, n - 1, orderings), rows[n], orderings)
SortRows(rows, orderings) == SortFirst(rows, Len(rows), orderings)

\* whether the database accepts the WHERE clause of a predicate expression: an
\* ordering inside the criterion of any or has is no SQL condition
RECURSIVE IsCondition(_)
IsCondition(e) ==
    /\ e.kind \notin {"asc", "desc"}
    /\ e.right.rk = "exprs" => \A i \in 1..Len(e.right.v) : IsCondition(e.right.v[i])
\* whether the database executes a query built from the expressions
Executable(exprs) == \A i \in 1..Len(exprs) : _is_ordering_expression(exprs[i]) \/ IsCondition(exprs[i])

\* an absent keyword argument
Absent == [kind |-> "absent", v |-> 0]

\* Query.filter: the rows of the class that satisfy every predicate
Select(m, predicates) ==
    SelectSeq(Table[m], LAMBDA id : \A i \in 1..Len(predicates) : Eval(predicates[i], id))
\* Query.offset
Drop(rows, offset) == IF offset.kind = "int" THEN SubSeq(rows, offset.v + 1, Len(rows)) ELSE rows
\* Query.limit: a negative LIMIT is no limit in SQLite
Take(rows, limit) ==
    IF limit.kind = "int" /\ limit.v >= 0
    THEN SubSeq(rows, 1, IF limit.v < Len(rows) THEN limit.v ELSE Len(rows))
    ELSE rows

\* the loop of _apply_kwargs over the expressions: the Query method each one
\* is passed to, in list order
query_calls(exprs) ==
    [i \in 1..Len(exprs) |->
        [method |-> IF _is_ordering_expression(exprs[i]) THEN "order_by" ELSE "filter",
         expression |-> exprs[i]]]

_apply_kwargs_LimitFirst(m, exprs, offset, limit) ==
    Drop(Take(SortRows(Select(m, SelectSeq(exprs, LAMBDA e : ~_is_ordering_expression(e))),
                       SelectSeq(exprs, _is_ordering_expression)),
              limit),
         offset)

\* _apply_kwargs followed by Query.all(): the expressions are split into filter and
\* order_by, then offset, then limit
_apply_kwargs(m, exprs, offset, limit) ==
    Take(Drop(SortRows(Select(m, SelectSeq(exprs, LAMBDA e : ~_is_ordering_expression(e))),
                       SelectSeq(exprs, _is_ordering_expression)),
              offset),
         limit)

\* SessionedModelWrapper.all
all(m, exprs, offset, limit) == _apply_kwargs(m, exprs, offset, limit)
count_Unfiltered(m, exprs) == Len(Table[m])
\* SessionedModelWrapper.count
count(m, exprs) == Len(_apply_kwargs(m, exprs, Absent, Absent))
\* Query.one: [err, row]
query_one(rows) ==
    IF Len(rows) = 0 THEN [err |-> "NoResultFound", row |-> ""]
    ELSE IF Len(rows) > 1 THEN [err |-> "MultipleResultsFound", row |-> ""]
    ELSE [err |-> "none", row |-> rows[1]]
\* SessionedModelWrapper.one: [err, row]
one(m, exprs, offset) == query_one(_apply_kwargs(m, exprs, offset, Absent))

\* SessionedModelWrapper.get(*pargs) for a primary key of one column: [err, row].
\* The message of NoResultFound reads self.model.__collectionname__ of the mapped class.
query_get(m, found) ==
    IF found # <<>> THEN [err |-> "none", row |-> found[1]]
    ELSE IF ~Schema[m].collectionname THEN [err |-> "AttributeError", row |-> ""]
    ELSE [err |-> "NoResultFound", row |-> ""]
get(m, pk) == query_get(m, SelectSeq(Table[m], LAMBDA id : Store[id].attrs["_id"] = IntV(pk)))

---------------------------------------------------------------------------
(* The scenario of to_dict: Init draws the arguments, Serialize calls it.  *)

Years == {1, 1978, 2013}
Months == {1, 11}
Days == {3, 31}
Hours == {0, 23}
Minutes == {5, 59}
Seconds == {0, 58}
Micros == {0, 7, 250000}

Scalars ==
    {StrV("x"), StrV(""), IntV(0), IntV(7), IntV(-3), BoolV(TRUE), BoolV(FALSE), FloatV(32), FloatV(-5)}
DateTimes ==
    {DateTimeV(y, mo, d, h, mi, sec, us) :
        y \in Years, mo \in Months, d \in Days, h \in Hours, mi \in Minutes, sec \in Seconds, us \in Micros}
Dates == {DateV(y, mo, d) : y \in Years, mo \in Months, d \in Days}
Times == {TimeV(h, mi, sec, us) : h \in Hours, mi \in Minutes, sec \in Seconds, us \in Micros}
Leaves == {None} \cup Scalars \cup DateTimes \cup Dates \cup Times

D1(k, x) == DictV(<< <<k, x>> >>)
D2(k1, x1, k2, x2) == DictV(<< <<k1, x1>>, <<k2, x2>> >>)

Containers ==
    {D2("a", IntV(1), "when", DateV(2013, 5, 23)),
     ListV(<<IntV(1), StrV("b")>>),
     ListV(<<>>),
     ListV(<<EntV("p1"), EntV("p2")>>),
     ListV(<<EntV("c1")>>),
     ObjV("Decimal")}

Includes ==
    {None, False, True,
     D1("friend", D1("pet", True)),
     D1("name", True),
     D2("name", True, "computers", True),
     D1("computers", D2("cpu", True, "user", True)),
     D1("user", D1("computers", True)),
     D1("pet", D1("owner", D1("friend", True))),
     D1("a", D1("b", True)),
     ListV(<<StrV("name")>>),
     D1("nope", True)}

Excludes ==
    {None,
     D1("name", True),
     D1("a", True),
     D2("computers", True, "friend", True),
     ListV(<<StrV("name"), StrV("computers")>>),
     True}

OptionDicts ==
    {[execute_queries |-> q, execute_hybrids |-> h] : q \in BOOLEAN, h \in BOOLEAN} \cup {<<>>}
OptionArgs == {DefaultOptions} \cup {Options(d) : d \in OptionDicts}

InitDict ==
    /\ pc = "ready"
    /\ \/ /\ instance \in Leaves
          /\ include_arg \in {None, D1("name", True)}
          /\ exclude_arg \in {None, D1("name", True)}
          /\ options_arg = DefaultOptions
       \/ /\ instance \in {EntV(id) : id \in Ids} \cup Containers
          /\ include_arg \in Includes
          /\ exclude_arg \in Excludes
          /\ options_arg \in OptionArgs
    /\ call = [instance |-> instance, include |-> include_arg, exclude |-> exclude_arg, options |-> options_arg]
    /\ tree = None
    /\ instance_type = None
    /\ reads = {}
    /\ default_options = <<>>
    /\ raised = "none"
    /\ FilterIdle
    /\ HandlerIdle

Serialize ==
    /\ pc = "ready"
    /\ LET r == to_dict(instance, options_arg, include_arg, exclude_arg, [reads |-> {}, dflt |-> default_options])
       IN  /\ tree' = r.val
           /\ raised' = r.err
           /\ instance_type' = exception(r.err).instance_type
           /\ reads' = r.st.reads
           /\ default_options' = r.st.dflt
           /\ include_arg' = r.include
    /\ pc' = "done"
    /\ UNCHANGED <<columns, instance, exclude_arg, options_arg, call, filter_vars, handler_vars>>

NextDict == Serialize

SpecDict == InitDict /\ [][NextDict]_vars

---------------------------------------------------------------------------
(* Claims about to_dict, checked under SpecDict *)

Serialized == pc = "done" /\ "include" \in DOMAIN call

\* C3: a call with include and exclude both given fails with ValueError, whatever
\* the instance, and reads no attribute.
C3_IncludeAndExcludeFail ==
    (Serialized /\ call.include # None /\ call.exclude # None)
        => (raised = "ValueError" /\ reads = {} /\ tree = None)

C3_Witness ==
    /\ Serialized
    /\ call.instance = EntV("p1")
    /\ call.include = D1("name", True)
    /\ call.exclude = D1("name", True)
    /\ raised = "ValueError"
    /\ reads = {}

\* every dict of x, x being a dict, a list of dicts or a leaf, holds columns and
\* hybrids of m only, each with a leaf value
LeafFieldsOnly(x, m) ==
    LET ok(d) == /\ d.kind = "dict"
                 /\ Keys(d) \subseteq get_columns(m) \cup get_hybrids(m)
                 /\ \A i \in 1..Len(d.v) : d.v[i][2].kind \notin {"dict", "list"}
    IN  IF x.kind = "list" THEN \A i \in 1..Len(x.v) : ok(x.v[i])
        ELSE IF x.kind = "dict" THEN ok(x)
        ELSE TRUE

RootModel == Store[call.instance.v].model

\* C4: with no include and no exclude, what a mapped instance returns under a
\* relation key holds no relation of the related class, only its leaf fields.
C4_RelationsHoldLeafFieldsOnly ==
    (Serialized /\ call.instance.kind = "ent" /\ call.include = None /\ call.exclude = None
        /\ raised = "none")
        => \A r \in get_relations(RootModel) \cap Keys(tree) :
              LeafFieldsOnly(Get(tree, r), Schema[RootModel].target[r])

\* the root's friend has a friend and a pet of its own, and appears with neither
C4_Witness ==
    /\ Serialized
    /\ call.instance = EntV("p2")
    /\ call.include = None /\ call.exclude = None
    /\ raised = "none"
    /\ Store["p1"].attrs["friend"] = EntV("p2")
    /\ Store["p1"].attrs["pet"] = EntV("t1")
    /\ {"friend", "computers"} \subseteq Keys(tree)
    /\ Keys(Get(tree, "friend")) = {"_id", "name", "birth", "age"}
    /\ Len(Get(tree, "computers").v) = 1

\* C5 as stated: with include {"friend": {"pet": True}} the root map holds only
\* friend, the friend map only pet, and nothing below pet expands a relation.
C5_IncludePathOnly ==
    (Serialized /\ call.instance.kind = "ent" /\ call.include = D1("friend", D1("pet", True))
        /\ call.exclude = None /\ raised = "none")
        => /\ Keys(tree) = {"friend"}
           /\ LET friend == Get(tree, "friend") IN
              friend # None =>
                 /\ Keys(friend) = {"pet"}
                 /\ LeafFieldsOnly(Get(friend, "pet"), "Pet")

\* C8: a base type value is returned as it is, a date or time value as its
\* isoformat string, and serializing the result again returns it unchanged.
C8_LeavesSerializeStably ==
    (Serialized /\ IsLeaf(call.instance) /\ ~(call.include # None /\ call.exclude # None))
        => /\ raised = "none"
           /\ call.instance.kind \in __basetypes__ => tree = call.instance
           /\ call.instance.kind \in __datetypes__ => tree = StrV(isoformat(call.instance))
           /\ LET again == to_dict(tree, call.options, call.include, call.exclude,
                                   [reads |-> {}, dflt |-> default_options])
              IN  again.err = "none" /\ again.val = tree

C8_Witness ==
    /\ Serialized
    /\ call.instance = DateTimeV(1978, 1, 31, 23, 59, 58, 250000)
    /\ tree = StrV("1978-01-31T23:59:58.250000")


---------------------------------------------------------------------------
(* handler.BaseHandler: GET                                                *)
(*                                                                         *)
(* A handler is the record of what initialize stored, a request the record *)
(* of instance_id (None for the collection URL), the HTTP arguments        *)
(* results_per_page and page, and the keys of the q dictionary; a key that *)
(* was not sent is Absent.  IntV(n) as an argument stands for the decimal  *)
(* text of n.  A response is [err, body, queries, st].                     *)

Response(err, body, qs, st) == [err |-> err, body |-> body, queries |-> qs, st |-> st]

\* the truth value of a Python value
Truthy(x) ==
    CASE x.kind = "bool" -> x.v
      [] x.kind = "int" -> x.v # 0
      [] x.kind = "str" -> x.v # ""
      [] x.kind \in {"none", "absent"} -> FALSE
      [] OTHER -> TRUE

\* int(x) of an argument: [err, v]
int(x) == IF x.kind = "int" THEN [err |-> "none", v |-> x.v] ELSE [err |-> "ValueError", v |-> 0]

\* math.ceil(n / d) for n >= 0 and d # 0
ceil(n, d) == IF d > 0 THEN (n + d - 1) \div d ELSE 0 - (n \div (0 - d))

\* the results_per_page check of get_many
ExceedsMax_Never(results_per_page, max_results_per_page) == FALSE
ExceedsMax(results_per_page, max_results_per_page) == results_per_page > max_results_per_page

\* the limit of a request that names none: results_per_page or None
default_limit_None(results_per_page) == None
default_limit(results_per_page) == IF results_per_page # 0 THEN IntV(results_per_page) ELSE None

\* get_many from the response on: the dictionary it returns
get_many_result(num_results, total_pages, page, qs, found_err, objects) ==
    IF found_err # "none" THEN Response(found_err, None, qs, objects.st)
    ELSE IF objects.err # "none" THEN Response(objects.err, None, qs, objects.st)
    ELSE Response("none",
                  DictV(<< <<"num_results", IntV(num_results)>>,
                           <<"total_pages", IntV(total_pages)>>,
                           <<"page", IntV(page + 1)>>,
                           <<"objects", objects.val>> >>),
                  qs, objects.st)

\* get_many, the instances of a single request
get_many_one(h, st, num_results, total_pages, page, offset, the_one) ==
    get_many_result(num_results, total_pages, page,
                    <<[op |-> "count", offset |-> Absent, limit |-> Absent],
                      [op |-> "one", offset |-> IntV(offset), limit |-> Absent]>>,
                    the_one.err,
                    IF the_one.err # "none" THEN Result("none", None, st, h.include)
                    ELSE to_dict(ListV(<<EntV(the_one.row)>>),
                                 Options(h.to_dict_options), h.include, h.exclude, st))

\* get_many, the instances of a request that is not single
get_many_all(h, st, num_results, total_pages, page, offset, limit, instances) ==
    get_many_result(num_results, total_pages, page,
                    <<[op |-> "count", offset |-> Absent, limit |-> Absent],
                      [op |-> "all", offset |-> IntV(offset), limit |-> limit]>>,
                    "none",
                    to_dict(ListV([i \in 1..Len(instances) |-> EntV(instances[i])]),
                            Options(h.to_dict_options), h.include, h.exclude, st))

\* get_many from the count on
get_many_count(h, st, single, results_per_page, page, offset, limit, exprs, num_results) ==
    IF Truthy(single)
    THEN get_many_one(h, st, num_results,
                      IF results_per_page # 0 THEN ceil(num_results, results_per_page) ELSE 1,
                      page, offset, one(h.model, exprs, IntV(offset)))
    ELSE get_many_all(h, st, num_results,
                      IF results_per_page # 0 THEN ceil(num_results, results_per_page) ELSE 1,
                      page, offset, limit, all(h.model, exprs, IntV(offset), limit))

\* get_many from get_filters on
get_many_filters(h, st, single, results_per_page, page, offset, limit, compiled) ==
    IF compiled.err # "none" THEN Response(compiled.err, None, <<>>, st)
    ELSE IF ~Executable(compiled.exprs)
    THEN Response("OperationalError", None, <<[op |-> "count", offset |-> Absent, limit |-> Absent]>>, st)
    ELSE get_many_count(h, st, single, results_per_page, page, offset, limit,
                        compiled.exprs, count(h.model, compiled.exprs))

\* get_many from the offset check on
get_many_offset(h, rq, st, single, results_per_page, page, offset) ==
    IF offset < 0 THEN Response("IllegalArgumentError", None, <<>>, st)
    ELSE get_many_filters(h, st, single, results_per_page, page, offset,
                          IF rq.limit # Absent THEN rq.limit ELSE default_limit(results_per_page),
                          to_filter(h.model, rq.filters, rq.order_by))

\* get_many from the converted arguments on
get_many_checks(h, rq, st, single, rpp, off, pg) ==
    IF rpp.err # "none" THEN Response(rpp.err, None, <<>>, st)
    ELSE IF off.err # "none" THEN Response(off.err, None, <<>>, st)
    ELSE IF ExceedsMax(rpp.v, h.max_results_per_page) THEN Response("IllegalArgumentError", None, <<>>, st)
    ELSE IF pg.err # "none" THEN Response(pg.err, None, <<>>, st)
    ELSE get_many_offset(h, rq, st, single, rpp.v, pg.v - 1, off.v + (pg.v - 1) * rpp.v)

\* BaseHandler.get_many
get_many(h, rq, st) ==
    get_many_checks(h, rq, st,
                    IF rq.single = Absent THEN False ELSE rq.single,
                    int(IF rq.results_per_page = Absent THEN IntV(h.results_per_page) ELSE rq.results_per_page),
                    int(IF rq.offset = Absent THEN IntV(0) ELSE rq.offset),
                    int(IF rq.page = Absent THEN IntV(1) ELSE rq.page))

\* get_single, the response with the instance converted
get_single_result(qs, obj) == Response(obj.err, obj.val, qs, obj.st)

\* get_single from the lookup on
get_single_found(h, st, qs, found) ==
    IF found.err # "none" THEN Response(found.err, None, qs, st)
    ELSE get_single_result(qs, to_dict(EntV(found.row), Options(h.to_dict_options), h.include, h.exclude, st))

\* BaseHandler.get_single, the primary key being one column
get_single(h, rq, st) ==
    get_single_found(h, st, <<[op |-> "get", offset |-> Absent, limit |-> Absent]>>,
                     get(h.model, rq.instance_id.v))

\* BaseHandler.get
BaseHandler_get(h, rq, st) ==
    IF "get" \notin h.methods THEN Response("MethodNotAllowedError", None, <<>>, st)
    ELSE IF rq.instance_id = None THEN get_many(h, rq, st)
    ELSE get_single(h, rq, st)

\* the exception classes that derive from SQLAlchemyError
SQLAlchemyError ==
    {"NoResultFound", "MultipleResultsFound", "InvalidRequestError", "OperationalError", "IntegrityError"}

\* the status code of the response: 200 when the method returned, otherwise
\* what write_error sets for the exception
write_error(err) ==
    IF err = "none" THEN 200
    ELSE IF err = "UnmappedInstanceError" THEN 400
    ELSE IF err \in SQLAlchemyError THEN 400
    ELSE IF err = "IllegalArgumentError" THEN 400
    ELSE IF err = "DictConvertionError" THEN 400
    ELSE IF err = "MethodNotAllowedError" THEN 405
    ELSE IF err = "HTTPError 415" THEN 415
    ELSE IF err = "HTTPError 400" THEN 400
    ELSE 500


---------------------------------------------------------------------------
(* The scenario of GET: Init draws a handler and a request, Serve runs get. *)

\* the defaults of create_api_blueprint
DefaultResultsPerPage == 10
DefaultMaxResultsPerPage == 100

\* the ranges the arguments of a request are drawn from
MaxResultsPerPage == 3
MaxOffset == 2
MaxPage == 3
\* a max_results_per_page that requests exceed
SmallMax == 2
\* a primary key no instance has
MissingKey == 1337

IntsV(lo, hi) == {IntV(i) : i \in lo..hi}

\* lists of filters and of orders on the primary key
HandlerFilters ==
    {<<>>,
     <<[name |-> <<"_id">>, op |-> ">", val |-> IntV(1)]>>,
     <<[name |-> <<"_id">>, op |-> "frobnicate", val |-> IntV(1)]>>}
HandlerOrders ==
    {<<>>,
     <<[field |-> <<"_id">>, direction |-> "desc"]>>,
     <<[field |-> <<"name">>, direction |-> "asc"]>>,
     <<[field |-> <<"age">>, direction |-> "asc"]>>,
     <<[field |-> <<"age">>, direction |-> "desc"]>>,
     <<[field |-> <<"computers", ".", "cpu">>, direction |-> "desc"]>>}

\* a handler as initialize leaves it
Handler(m, methods, max) ==
    [model |-> m, methods |-> methods,
     results_per_page |-> DefaultResultsPerPage, max_results_per_page |-> max,
     include |-> None, exclude |-> None,
     to_dict_options |-> [execute_queries |-> TRUE, execute_hybrids |-> TRUE],
     allow_method_override |-> FALSE, preprocessor |-> {}]

METHODS_READ == {"get"}
METHODS_MODIFY == {"post", "put", "patch"}

\* requests on the collection URL that vary the pagination arguments
PaginationRequests ==
    [instance_id : {None},
     results_per_page : {Absent, StrV("x")} \cup IntsV(0 - 2, MaxResultsPerPage),
     page : {Absent, StrV("x")} \cup IntsV(0 - 1, MaxPage),
     single : {Absent},
     offset : {Absent, StrV("x")} \cup IntsV(0 - 2, MaxOffset),
     limit : {Absent},
     filters : HandlerFilters,
     order_by : {<<>>}]

\* requests on the collection URL that vary the q dictionary
QueryRequests ==
    [instance_id : {None},
     results_per_page : {Absent, IntV(0 - 2), IntV(0), IntV(2)},
     page : {Absent, IntV(2)},
     single : {Absent, True},
     offset : {Absent, IntV(1)},
     limit : {Absent, None, IntV(1)},
     filters : HandlerFilters,
     order_by : HandlerOrders]

InstanceRequests ==
    [instance_id : IntsV(1, 3) \cup {IntV(MissingKey)},
     results_per_page : {Absent},
     page : {Absent},
     single : {Absent},
     offset : {Absent},
     limit : {Absent},
     filters : {<<>>},
     order_by : {<<>>}]

InitHandler ==
    /\ pc = "ready"
    /\ \/ /\ handler \in {Handler("Person", METHODS_READ, max) : max \in {SmallMax, DefaultMaxResultsPerPage}}
          /\ request \in PaginationRequests
       \/ /\ handler \in {Handler(m, METHODS_READ, DefaultMaxResultsPerPage) : m \in {"Person", "Computer"}}
          /\ request \in QueryRequests
       \/ /\ handler \in {Handler(m, methods, DefaultMaxResultsPerPage) :
                            m \in Models, methods \in {METHODS_READ, METHODS_MODIFY}}
          /\ request \in InstanceRequests
    /\ status = 0
    /\ result = None
    /\ queries = <<>>
    /\ stored = <<>>
    /\ ran = <<>>
    /\ values = <<>>
    /\ memo = [kind |-> "absent", v |-> 0]
    /\ columns = None
    /\ finished = 0
    /\ raised = "none"
    /\ instance = None
    /\ call = [handler |-> handler, request |-> request]
    /\ DictIdle
    /\ FilterIdle

\* the response is sent: finish on a result, write_error on an exception
Respond(r) ==
    /\ raised' = r.err
    /\ status' = write_error(r.err)
    /\ result' = r.body
    /\ queries' = r.queries
    /\ reads' = r.st.reads
    /\ default_options' = r.st.dflt

Serve ==
    /\ pc = "ready"
    /\ Respond(BaseHandler_get(handler, request, [reads |-> {}, dflt |-> default_options]))
    /\ pc' = "done"
    /\ UNCHANGED <<finished, columns, instance, call, handler, request, stored, ran, values, memo, filter_vars, include_arg,
                   exclude_arg, options_arg, tree, instance_type>>

NextHandler == Serve

SpecHandler == InitHandler /\ [][NextHandler]_vars


---------------------------------------------------------------------------
(* Claims about GET, checked under SpecHandler *)

\* a request on the collection URL has been served
ServedMany == pc = "done" /\ "request" \in DOMAIN call /\ request.instance_id = None
\* a request on an instance URL has been served by a handler that allows GET
ServedSingle ==
    pc = "done" /\ "request" \in DOMAIN call /\ request.instance_id # None /\ "get" \in handler.methods

\* the arguments of the request as get_many reads them, defaults filled in
ArgResultsPerPage ==
    IF request.results_per_page = Absent THEN IntV(handler.results_per_page) ELSE request.results_per_page
ArgOffset == IF request.offset = Absent THEN IntV(0) ELSE request.offset
ArgPage == IF request.page = Absent THEN IntV(1) ELSE request.page
ArgsAreIntegers == ArgResultsPerPage.kind = "int" /\ ArgOffset.kind = "int" /\ ArgPage.kind = "int"
\* offset + (page - 1) * results_per_page
EffectiveOffset == ArgOffset.v + (ArgPage.v - 1) * ArgResultsPerPage.v
\* the least k with k * d >= n, for d > 0
CeilOf(n, d) == CHOOSE k \in 0..n : k * d >= n /\ (k = 0 \/ (k - 1) * d < n)

\* C6 (the claim as stated): a collection request that is answered skips
\* offset + (page - 1) * results_per_page rows, page counted from 1, and reports
\* total_pages = ceil(num_results / results_per_page) when results_per_page > 0
\* and total_pages = 1 for every other results_per_page, zero or negative.
C6_PaginationArithmetic ==
    (ServedMany /\ raised = "none") =>
        /\ queries[2].offset = IntV(EffectiveOffset)
        /\ Get(result, "page") = ArgPage
        /\ Get(result, "total_pages") =
              IF ArgResultsPerPage.v > 0
              THEN IntV(CeilOf(Get(result, "num_results").v, ArgResultsPerPage.v))
              ELSE IntV(1)

\* the request exceeds max_results_per_page or its effective offset is negative
RejectedByPagination ==
    /\ ArgResultsPerPage.kind = "int"
    /\ \/ ArgResultsPerPage.v > handler.max_results_per_page
       \/ ArgsAreIntegers /\ EffectiveOffset < 0

C10_MissingKeyIsNotFound ==
    (ServedSingle /\ \A id \in Ids : Store[id].model = handler.model => Store[id].attrs["_id"] # request.instance_id)
        => (raised = "NoResultFound" /\ status = 400)


---------------------------------------------------------------------------
(* The scenario of the executor: Init draws a class, a compiled list of    *)
(* expressions, an offset and a limit; RunAll calls all.                   *)

\* the longest lists of filters and of orders that are compiled for a query
MaxQueryFilters == 2
MaxQueryOrders == 2
\* the largest offset and limit of a query
MaxQueryOffset == 2
MaxQueryLimit == 2

\* filter entries on the columns of a class, one of them an ordering marker
QueryFilters(m) ==
    IF m = "Person"
    THEN {[name |-> <<"_id">>, op |-> ">", val |-> IntV(1)],
          [name |-> <<"name">>, op |-> "!=", val |-> StrV("Bernd")],
          [name |-> <<"_id">>, op |-> "desc"]}
    ELSE {[name |-> <<"_id">>, op |-> "<", val |-> IntV(3)],
          [name |-> <<"ram">>, op |-> "==", val |-> FloatV(40)],
          [name |-> <<"cpu">>, op |-> "desc"]}

QueryOrders(m) ==
    IF m = "Person"
    THEN {[field |-> <<"name">>, direction |-> "desc"],
          [field |-> <<"birth">>, direction |-> "asc", nullslast |-> TRUE],
          [field |-> <<"computers", "__", "cpu">>, direction |-> "asc"]}
    ELSE {[field |-> <<"ram">>, direction |-> "asc"],
          [field |-> <<"cpu">>, direction |-> "desc"],
          [field |-> <<"_id">>, direction |-> "desc"]}

InitQuery ==
    /\ pc = "ready"
    /\ instance \in {"Person", "Computer"}
    /\ filters \in SeqsUpTo(QueryFilters(instance), MaxQueryFilters)
    /\ order_by \in SeqsUpTo(QueryOrders(instance), MaxQueryOrders)
    /\ alchemy_filters = to_filter(instance, filters, order_by).exprs
    /\ request \in [offset : {Absent} \cup IntsV(0, MaxQueryOffset),
                    limit : {Absent, None} \cup IntsV(0, MaxQueryLimit)]
    /\ call = [model |-> instance, exprs |-> alchemy_filters,
               offset |-> request.offset, limit |-> request.limit]
    /\ handler = <<>>
    /\ status = 0
    /\ result = None
    /\ queries = <<>>
    /\ stored = <<>>
    /\ ran = <<>>
    /\ values = <<>>
    /\ memo = [kind |-> "absent", v |-> 0]
    /\ columns = None
    /\ finished = 0
    /\ raised = "none"
    /\ DictIdle

\* the rows as the list all returns
Instances(rows) == ListV([i \in 1..Len(rows) |-> EntV(rows[i])])

RunAll ==
    /\ pc = "ready"
    /\ IF Executable(alchemy_filters)
       THEN /\ result' = Instances(all(instance, alchemy_filters, request.offset, request.limit))
            /\ raised' = "none"
       ELSE /\ result' = None
            /\ raised' = "OperationalError"
    /\ queries' = <<[op |-> "all", calls |-> query_calls(alchemy_filters),
                      offset |-> request.offset, limit |-> request.limit]>>
    /\ pc' = "done"
    /\ UNCHANGED <<finished, columns, instance, call, handler, request, status, stored, ran, values, memo, filter_vars,
                   dict_vars>>

NextQuery == RunAll

SpecQuery == InitQuery /\ [][NextQuery]_vars


---------------------------------------------------------------------------
(* Claims about the executor, under SpecQuery *)

\* all has been called on a compiled expression list
Queried == pc = "done" /\ "exprs" \in DOMAIN call

\* the predicate and the ordering expressions of the call, in list order
CallPredicates == SelectSeq(call.exprs, LAMBDA e : e.kind \notin {"asc", "desc"})
CallOrderings == SelectSeq(call.exprs, LAMBDA e : e.kind \in {"asc", "desc"})
\* the rows of the class that satisfy every predicate expression
Matching ==
    {id \in Range(Table[call.model]) : \A i \in 1..Len(CallPredicates) : Eval(CallPredicates[i], id)}
\* the ordering expressions on which two rows differ
Deciding(a, b) ==
    {k \in 1..Len(CallOrderings) : Precedes(CallOrderings[k], a, b) \/ Precedes(CallOrderings[k], b, a)}
\* row b does not have to come before row a: the first ordering expression on
\* which they differ, if any, puts a first
MayPrecede(a, b) ==
    Deciding(a, b) = {} \/
    Precedes(CallOrderings[CHOOSE k \in Deciding(a, b) : \A j \in Deciding(a, b) : k <= j], a, b)
\* the arrangements of the matching rows that respect the ordering expressions
Arrangements ==
    {S \in [1..Cardinality(Matching) -> Matching] :
        /\ \A i, j \in DOMAIN S : i # j => S[i] # S[j]
        /\ \A i, j \in DOMAIN S : i < j => MayPrecede(S[i], S[j])}
\* a sequence without its first `offset` elements, then cut to `limit` elements
Window(S, offset, limit) ==
    LET lo == IF offset.kind = "int" THEN offset.v ELSE 0
        n == IF Len(S) > lo THEN Len(S) - lo ELSE 0
        k == IF limit.kind = "int" /\ limit.v < n THEN limit.v ELSE n
    IN  [i \in 1..k |-> S[lo + i]]
ReturnedRows == [i \in 1..Len(result.v) |-> result.v[i].v]

\* C11: all returns the rows that satisfy every predicate expression, sorted by
\* the ordering expressions with the first one as primary key, without the
\* first `offset` of them and then cut to at most `limit`; an absent offset or
\* limit restricts nothing.
C11_AllFiltersSortsSkipsLimits ==
    (Queried /\ raised = "none") =>
        \E S \in Arrangements : ReturnedRows = Window(S, call.offset, call.limit)

\* two predicates, a primary ordering with a tie broken by the second one, an
\* offset and a limit that cuts: c2 and c1 tie on ram, cpu desc puts c2 first
C11_Witness ==
    /\ Queried
    /\ call.model = "Computer"
    /\ Len(CallPredicates) = 1 /\ CallPredicates[1].kind = "lt"
    /\ Len(CallOrderings) = 2
    /\ CallOrderings[1].left.attr = "ram" /\ CallOrderings[2].left.attr = "cpu"
    /\ call.offset = IntV(1) /\ call.limit = IntV(1)
    /\ ReturnedRows = <<"c1">>


---------------------------------------------------------------------------
(* Further claims about GET, under SpecHandler *)

\* a collection request has been answered with a result
Answered == ServedMany /\ raised = "none"
\* the predicate filters of the request alone, compiled
RequestPredicates ==
    SelectSeq(to_filter(handler.model, request.filters, <<>>).exprs, LAMBDA e : e.kind \notin {"asc", "desc"})
\* the rows of the handler's class that satisfy all of them
RequestMatching ==
    {id \in Range(Table[handler.model]) :
        \A i \in 1..Len(RequestPredicates) : Eval(RequestPredicates[i], id)}
\* the offset and the limit the request asks for
AskedOffset == queries[2].offset.v
Unlimited == queries[2].limit.kind # "int" \/ queries[2].limit.v < 0
\* every match is on the page
AllFit ==
    AskedOffset = 0 /\ (Unlimited \/ queries[2].limit.v >= Cardinality(RequestMatching))

\* C12: num_results is the number of rows that satisfy all predicate filters of
\* the request, whatever its order_by, offset, limit, page and
\* results_per_page; when every match fits on the page it is the number of
\* objects returned.
C12_NumResultsCountsMatches ==
    Answered =>
        /\ Get(result, "num_results") = IntV(Cardinality(RequestMatching))
        /\ AllFit => Len(Get(result, "objects").v) = Cardinality(RequestMatching)

\* a filtered, ordered request whose page starts behind the first match
C12_Witness ==
    /\ Answered
    /\ handler.model = "Person"
    /\ request.filters # <<>> /\ request.order_by # <<>>
    /\ request.offset = IntV(1) /\ request.limit = IntV(1) /\ request.results_per_page = IntV(2)
    /\ Get(result, "num_results") = IntV(2)
    /\ Len(Get(result, "objects").v) = 1

\* the objects of the answer and the value each holds for a field
Objects == Get(result, "objects").v
FieldOf(i, f) == Get(Objects[i], f)
\* the request orders by the one field f in the direction dir
OrderedBy(f, dir) == request.order_by = <<[field |-> <<f>>, direction |-> dir]>>
NonDecreasing(f) == \A i \in 1..(Len(Objects) - 1) : ~Less(FieldOf(i + 1, f), FieldOf(i, f))
NonIncreasing(f) == \A i \in 1..(Len(Objects) - 1) : ~Less(FieldOf(i, f), FieldOf(i + 1, f))
\* the fields a page of the scenario is ordered by
OrderFields == {"_id", "name", "age"}

\* C13 as stated: a page ordered by the one field f ascending holds its objects
\* in non-decreasing order of their value of f, descending in non-increasing
\* order, for a column and for a hybrid field alike.
C13_SortedByField ==
    \A f \in OrderFields :
        /\ (Answered /\ OrderedBy(f, "asc")) => NonDecreasing(f)
        /\ (Answered /\ OrderedBy(f, "desc")) => NonIncreasing(f)

\* the same for the columns alone
C13_SortedByColumn ==
    \A f \in OrderFields \ get_hybrids(handler.model) :
        /\ (Answered /\ OrderedBy(f, "asc")) => NonDecreasing(f)
        /\ (Answered /\ OrderedBy(f, "desc")) => NonIncreasing(f)

\* the request gives results_per_page = n and no limit of its own
PageOf(n) == request.results_per_page = IntV(n) /\ request.limit = Absent

Fetch == queries[2]
\* the limit passed to the executor is a number within max_results_per_page
LimitWithinMax ==
    Fetch.op = "all" =>
        /\ Fetch.limit.kind = "int"
        /\ Fetch.limit.v <= handler.max_results_per_page

\* C27 as stated: every get_many response holds at most max_results_per_page
\* objects, whatever results_per_page, limit, offset and page the request
\* supplies; the limit passed to the executor never exceeds
\* max_results_per_page and the offset passed to it is never negative.
C27_AtMostMaxObjects ==
    Answered =>
        /\ Len(Objects) <= handler.max_results_per_page
        /\ LimitWithinMax
        /\ Fetch.offset.v >= 0

\* the part that holds: the offset passed to the executor is never negative
C27_OffsetNeverNegative == Answered => Fetch.offset.v >= 0

\* a page that starts behind the first row although the request names page 0
C27_OffsetWitness ==
    /\ Answered
    /\ request.page = IntV(0) /\ request.offset = IntV(2) /\ request.results_per_page = IntV(1)
    /\ Fetch.offset.v = 1

---------------------------------------------------------------------------
(* handler.BaseHandler: the method check and POST                          *)
(*                                                                         *)
(* A request of this scenario is the record of its method, its headers     *)
(* X-HTTP-Method-Override and Content-Type (Absent when not sent), the     *)
(* arguments tornado parsed from a form body (pairs of a key and a list of *)
(* byte strings) and the body (a JSON document as the value it denotes, or *)
(* a text that is no JSON).  A Content-Type is the sequence of the parts   *)
(* that the substring tests of get_body_arguments tell apart.  The texts   *)
(* are ASCII, so that get_content_encoding does not matter.                *)

BytesV(s) == [kind |-> "bytes", v |-> s]

\* a response of this scenario: the exception, the status code, the body, the
\* rows committed, the preprocessor names run, the session calls, and what
\* get_argument_values returned and memoized
PostResponse(err, code, body, rows, names, qs, st, got) ==
    [err |-> err, status |-> code, body |-> body, stored |-> rows, ran |-> names, queries |-> qs, st |-> st,
     values |-> IF got.err = "none" THEN <<got.val>> ELSE <<>>, memo |-> got.memo]

\* get_argument_values was not called
NotCalled == [err |-> "not called", val |-> None, memo |-> Absent]

\* initialize: the method of the request after X-HTTP-Method-Override
request_method(h, rq) ==
    IF h.allow_method_override /\ rq.override # Absent THEN rq.override.v ELSE rq.method

\* method.lower()
lower(method) ==
    CASE method = "GET" -> "get"
      [] method = "POST" -> "post"
      [] method = "PUT" -> "put"
      [] method = "PATCH" -> "patch"
      [] method = "DELETE" -> "delete"

\* _call_preprocessor called from the function name: the names run so far
\* with name added if functions are registered under it
_call_preprocessor(h, names, name) == IF name \in h.preprocessor THEN Append(names, name) ELSE names

\* 'sub in content_type'
InContentType(sub, content_type) == \E i \in 1..Len(content_type) : content_type[i] = sub

\* one value of the form payload: None, the text, or the list of the texts
form_value(value) ==
    IF Len(value) = 0 THEN None
    ELSE IF Len(value) = 1 THEN StrV(value[1].v)
    ELSE ListV([i \in 1..Len(value) |-> StrV(value[i].v)])

\* json.loads of the body: [err, val]
loads(body) ==
    IF body.kind = "dict" THEN [err |-> "none", val |-> body] ELSE [err |-> "ValueError", val |-> None]

\* get_body_arguments: [err, val]
get_body_arguments(rq) ==
    IF rq.content_type = Absent THEN [err |-> "TypeError", val |-> None]
    ELSE IF InContentType("www-form-urlencoded", rq.content_type.v)
    THEN [err |-> "none",
          val |-> DictV([i \in 1..Len(rq.arguments) |->
                            <<rq.arguments[i][1], form_value(rq.arguments[i][2])>>])]
    ELSE IF InContentType("application/json", rq.content_type.v) THEN loads(rq.body)
    ELSE [err |-> "HTTPError 415", val |-> None]

\* a dict without the keys of a set
Without(d, keys) == DictV(SelectSeq(d.v, LAMBDA pair : pair[1] \notin keys))

\* {k: self.get_body_argument(k) for k in self.include}
include_values(include, arguments) ==
    IF Keys(include) \subseteq Keys(arguments)
    THEN [err |-> "none",
          val |-> DictV([i \in 1..Len(include.v) |-> <<include.v[i][1], Get(arguments, include.v[i][1])>>])]
    ELSE [err |-> "HTTPError 400", val |-> None]

\* the keys get_argument_values deletes: q, the excluded columns, the
\* proxies, the hybrids and the relations
Deleted(h) ==
    {"q"} \cup (IF h.exclude = None THEN {} ELSE Keys(h.exclude))
          \cup get_proxies(h.model) \cup get_hybrids(h.model) \cup get_relations(h.model)

\* get_argument_values from the deletions on: [err, val, memo].  The keys are
\* deleted from the dict the comprehension built; the memoized dict loses
\* them only if that dict were the memoized one itself
delete_values(h, collected, body) ==
    IF body.err # "none" THEN [err |-> body.err, val |-> None, memo |-> Absent]
    ELSE IF collected.err # "none" THEN [err |-> collected.err, val |-> None, memo |-> body.val]
    ELSE [err |-> "none", val |-> Without(collected.val, Deleted(h)),
          memo |-> IF collected.aliased THEN Without(body.val, Deleted(h)) ELSE body.val]

\* get_argument_values from the body arguments on: [err, val, aliased], a
\* dict comprehension building a dict of its own in either branch
collect_values_NoCopy(h, body) == [err |-> body.err, val |-> body.val, aliased |-> TRUE]
collect_values(h, body) ==
    IF body.err # "none" THEN [err |-> body.err, val |-> None, aliased |-> FALSE]
    ELSE IF h.include # None
    THEN [err |-> include_values(h.include, body.val).err, val |-> include_values(h.include, body.val).val,
          aliased |-> FALSE]
    ELSE [err |-> "none", val |-> body.val, aliased |-> FALSE]

\* get_argument_values given what get_body_arguments returns
argument_values(h, body) == delete_values(h, collect_values(h, body), body)

\* BaseHandler.get_argument_values: [err, val, memo], stored being the
\* memoized body arguments at the call, Absent if there are none
get_argument_values(h, rq, stored_memo) ==
    argument_values(h, IF stored_memo = Absent THEN get_body_arguments(rq)
                       ELSE [err |-> "none", val |-> stored_memo])

\* self.model(**values), the exception of the constructor, which is called
\* without arguments: Person has an __init__ of its own that requires two
construct(m) == IF m = "Person" THEN "TypeError" ELSE "none"

\* the row of the new instance: setattr stores every value on the instance,
\* the mapper persists those of the columns
row_values(m, kwargs) == DictV(SelectSeq(kwargs.v, LAMBDA pair : pair[1] \in get_columns(m)))

\* whether the commit of a new row fails: a row has its primary key already
Conflicts(m, kwargs) ==
    /\ "_id" \in Keys(kwargs)
    /\ \E i \in 1..Len(Table[m]) : Same(Store[Table[m][i]].attrs["_id"], Get(kwargs, "_id"))

\* the instance a POST of the scenario creates, after refresh
Fresh(m) == IF m = "Computer" THEN "c4" ELSE "t1"

\* post_single after commit and refresh: status 201 and the instance converted
post_single_created(m, row, names, obj, got) ==
    PostResponse(obj.err, IF obj.err = "none" THEN 201 ELSE write_error(obj.err),
                 obj.val, <<row>>, names,
                 <<[op |-> "add"], [op |-> "commit"], [op |-> "refresh"], [op |-> "commit"]>>, obj.st, got)

\* post_single from the values on
post_single_values(h, st, names, got) ==
    IF got.err # "none"
    THEN PostResponse(got.err, write_error(got.err), None, <<>>, names, <<[op |-> "commit"]>>, st, got)
    ELSE IF construct(h.model) # "none"
    THEN PostResponse(construct(h.model), write_error(construct(h.model)), None,
                      <<>>, _call_preprocessor(h, names, "post_single"), <<[op |-> "commit"]>>, st, got)
    ELSE IF Conflicts(h.model, got.val)
    THEN PostResponse("IntegrityError", 400, None, <<>>, _call_preprocessor(h, names, "post_single"),
                      <<[op |-> "add"], [op |-> "commit"], [op |-> "rollback"], [op |-> "commit"]>>, st, got)
    ELSE post_single_created(h.model, [model |-> h.model, values |-> row_values(h.model, got.val)],
                             _call_preprocessor(h, names, "post_single"),
                             to_dict(EntV(Fresh(h.model)), Options(h.to_dict_options), h.include, h.exclude, st),
                             got)

\* BaseHandler.post_single
post_single(h, rq, st, names) == post_single_values(h, st, names, get_argument_values(h, rq, Absent))

\* 'post' in self.methods
post_allowed_Always(methods) == TRUE
post_allowed(methods) == "post" \in methods

\* BaseHandler.post, names being the preprocessor names run before it
BaseHandler_post(h, rq, st, names) ==
    IF ~post_allowed(h.methods)
    THEN PostResponse("MethodNotAllowedError", 405, None, <<>>, names, <<>>, st, NotCalled)
    ELSE post_single(h, rq, st, _call_preprocessor(h, names, "post"))

\* the calls of finish on the response of a POST that ended with err.  An
\* SQLAlchemyError is raised inside post_single and caught there: send_error
\* writes it and finishes the response, post_single returns None, and post
\* goes on to _call_postprocessor and self.finish(result).  Any other
\* exception leaves post and is finished once, by send_error; a result is
\* finished once, by post.
finish_calls(err) == IF err \in SQLAlchemyError THEN 2 ELSE 1

\* put, patch and delete up to their method check
BaseHandler_modify(h, method, st, names) ==
    CASE lower(method) \notin h.methods ->
            PostResponse("MethodNotAllowedError", 405, None, <<>>, names, <<>>, st, NotCalled)

\* prepare, then the method of the request
BaseHandler_execute(h, rq, st) ==
    IF request_method(h, rq) = "POST"
    THEN BaseHandler_post(h, rq, st, _call_preprocessor(h, <<>>, "prepare"))
    ELSE BaseHandler_modify(h, request_method(h, rq), st, _call_preprocessor(h, <<>>, "prepare"))

---------------------------------------------------------------------------
(* The scenario of POST: Init draws a handler and a request, Submit runs   *)
(* the method.  The handlers allow neither put, patch nor delete, and      *)
(* their column lists keep _user and cpu of the payload.                    *)

\* Content-Type values: JSON, JSON with a charset, a form, and another type
ContentTypes ==
    {<<"application/json">>, <<"application/json", "; charset=utf-8">>,
     <<"application/x-", "www-form-urlencoded">>, <<"application/x-duck-typed">>}

\* the computer of the test suite's payload
NewComputer == << <<"_user", IntV(2)>>, <<"cpu", FloatV(134)>>, <<"ram", FloatV(134)>> >>

\* JSON bodies: the computer; the same with q, a relation of Computer and the
\* hybrid of Person; with the primary key of a stored row; with a key the
\* class has not; and a text that is no JSON
JsonBodies ==
    {DictV(NewComputer),
     DictV(NewComputer \o << <<"q", StrV("{}")>>, <<"user", None>>, <<"age", IntV(44)>> >>),
     DictV(NewComputer \o << <<"_id", IntV(1)>> >>),
     DictV(NewComputer \o << <<"gpu", IntV(1)>> >>),
     StrV("quak quak quak")}

\* the arguments of form bodies: the computer, and the same with q
FormArguments ==
    {<< <<"_user", <<BytesV("2")>> >>, <<"cpu", <<BytesV("13.4")>> >>, <<"ram", <<BytesV("13.4")>> >> >>,
     << <<"_user", <<BytesV("2")>> >>, <<"cpu", <<BytesV("13.4")>> >>, <<"ram", <<BytesV("13.4")>> >>,
        <<"q", <<BytesV("{}")>> >> >>}

PostMethods == {"POST", "PUT", "PATCH", "DELETE"}
Overrides == {Absent, StrV("POST"), StrV("PUT")}

PostRequests ==
    [method : PostMethods, override : Overrides,
     content_type : {Absent} \cup {ListV(c) : c \in ContentTypes \ {<<"application/x-", "www-form-urlencoded">>}},
     arguments : {<<>>}, body : JsonBodies]
    \cup
    [method : PostMethods, override : Overrides,
     content_type : {ListV(<<"application/x-", "www-form-urlencoded">>)},
     arguments : FormArguments, body : {StrV("")}]

\* the include and exclude columns of the blueprints
PostColumns ==
    {[include |-> None, exclude |-> None],
     [include |-> None, exclude |-> D1("ram", True)],
     [include |-> D2("_user", True, "cpu", True), exclude |-> None]}

PostHandlers ==
    {[Handler("Computer", methods, DefaultMaxResultsPerPage) EXCEPT
          !.allow_method_override = override, !.preprocessor = names,
          !.include = blueprint.include, !.exclude = blueprint.exclude] :
        methods \in {METHODS_READ, {"get", "post"}}, override \in BOOLEAN,
        names \in {{}, {"prepare", "post", "post_single"}}, blueprint \in PostColumns}
    \cup {Handler("Person", {"get", "post"}, DefaultMaxResultsPerPage)}

InitPost ==
    /\ pc = "ready"
    /\ handler \in PostHandlers
    /\ request \in PostRequests
    /\ status = 0
    /\ result = None
    /\ queries = <<>>
    /\ stored = <<>>
    /\ ran = <<>>
    /\ values = <<>>
    /\ memo = [kind |-> "absent", v |-> 0]
    /\ columns = None
    /\ finished = 0
    /\ raised = "none"
    /\ instance = None
    /\ call = [handler |-> handler, post |-> request]
    /\ DictIdle
    /\ FilterIdle

\* the response is sent
Send(r) ==
    /\ raised' = r.err
    /\ status' = r.status
    /\ result' = r.body
    /\ queries' = r.queries
    /\ stored' = r.stored
    /\ ran' = r.ran
    /\ values' = r.values
    /\ memo' = r.memo
    /\ finished' = finish_calls(r.err)
    /\ reads' = r.st.reads
    /\ default_options' = r.st.dflt

Submit ==
    /\ pc = "ready"
    /\ Send(BaseHandler_execute(handler, request, [reads |-> {}, dflt |-> default_options]))
    /\ pc' = "done"
    /\ UNCHANGED <<columns, instance, call, handler, request, filter_vars, include_arg, exclude_arg, options_arg, tree,
                   instance_type>>

\* get_argument_values is called once more on the request, as a postprocessor
\* or an overriding method may do
Again ==
    /\ pc = "done"
    /\ Len(values) = 1
    /\ values' = Append(values, get_argument_values(handler, request, memo).val)
    /\ memo' = get_argument_values(handler, request, memo).memo
    /\ pc' = "again"
    /\ UNCHANGED <<finished, columns, instance, raised, call, handler, request, status, result, queries, stored, ran,
                   filter_vars, dict_vars>>

NextPost == Submit \/ Again

SpecPost == InitPost /\ [][NextPost]_vars

---------------------------------------------------------------------------
(* Claims about the method check and POST, checked under SpecPost *)

\* a request of the scenario has been answered
Submitted == pc \in {"done", "again"} /\ "post" \in DOMAIN call
\* the method of the request after the override
Effective == request_method(handler, request)

\* C15: a request whose method, after X-HTTP-Method-Override, is not among the
\* allowed methods of the blueprint is rejected with MethodNotAllowedError and
\* status 405; no preprocessor of the method has run (only prepare's, which
\* precedes every method), no call on the session was made and no row stored.
C15_DisallowedMethodRejected ==
    (Submitted /\ lower(Effective) \notin handler.methods) =>
        /\ raised = "MethodNotAllowedError"
        /\ status = 405
        /\ \A i \in 1..Len(ran) : ran[i] = "prepare"
        /\ queries = <<>>
        /\ stored = <<>>

\* a PUT overridden to POST on a read-only blueprint with preprocessors
C15_Witness ==
    /\ Submitted
    /\ handler.methods = METHODS_READ
    /\ handler.allow_method_override /\ handler.preprocessor # {}
    /\ request.method = "PUT" /\ request.override = StrV("POST")
    /\ request.body = DictV(NewComputer) /\ request.content_type = ListV(<<"application/json">>)
    /\ status = 405
    /\ ran = <<"prepare">>

\* a POST has been answered by a blueprint that allows it
Posted == Submitted /\ Effective = "POST" /\ "post" \in handler.methods
\* the media type a Content-Type names: its parts without the parameters
Parameters == {"; charset=utf-8"}
RECURSIVE Joined(_, _)
Joined(parts, i) ==
    IF i > Len(parts) THEN ""
    ELSE (IF parts[i] \in Parameters THEN "" ELSE parts[i]) \o Joined(parts, i + 1)
MediaType == IF request.content_type = Absent THEN "" ELSE Joined(request.content_type.v, 1)
PayloadTypes == {"application/x-www-form-urlencoded", "application/json"}
\* the payload is one the class and the storage accept
Acceptable ==
    /\ get_argument_values(handler, request, Absent).err = "none"
    /\ construct(handler.model) = "none"
    /\ ~Conflicts(handler.model, get_argument_values(handler, request, Absent).val)

\* C16 as stated: a POST whose Content-Type names neither
\* application/x-www-form-urlencoded nor application/json is answered with 415
\* and stores no row; a POST with a form or JSON payload (one the class and
\* the storage accept) stores exactly one row and is answered with 201.
C16_PayloadFormat ==
    Posted =>
        /\ MediaType \notin PayloadTypes => (status = 415 /\ stored = <<>>)
        /\ (MediaType \in PayloadTypes /\ Acceptable) => (Len(stored) = 1 /\ status = 201)

\* the same for the requests that send a Content-Type to a blueprint without
\* exclude_columns
C16_WithContentType ==
    (Posted /\ request.content_type # Absent /\ handler.exclude = None) =>
        /\ MediaType \notin PayloadTypes => (status = 415 /\ stored = <<>>)
        /\ (MediaType \in PayloadTypes /\ Acceptable) => (Len(stored) = 1 /\ status = 201)

---------------------------------------------------------------------------
(* Further claims about to_dict, checked under SpecDict *)

\* a mapped instance has been serialized without include, with the default
\* options and an exclude that names fields
ExcludedFrom ==
    /\ Serialized /\ call.instance.kind = "ent"
    /\ call.include = None /\ call.exclude.kind \in {"dict", "list"}
    /\ call.options = DefaultOptions
\* the fields the exclude names
Named(exclude) == {column \in Range(Attributes(RootModel)) : Contains(exclude, column)}

\* C17 as stated: with include null and an exclude naming the fields E, to_dict
\* returns a map whose keys are exactly the columns, proxies, hybrids and
\* relations of the instance that are not in E, and does not fail.
C17_ExcludeOmitsNamedFields ==
    ExcludedFrom =>
        /\ raised = "none"
        /\ Keys(tree) = Range(Attributes(RootModel)) \ Named(call.exclude)

\* the same for an exclude given as a list of names
C17_ListExclude ==
    (ExcludedFrom /\ call.exclude.kind = "list") =>
        /\ raised = "none"
        /\ Keys(tree) = Range(Attributes(RootModel)) \ Named(call.exclude)

---------------------------------------------------------------------------
(* Claims about get_argument_values, checked under SpecPost *)

\* get_argument_values has returned a map
Collected == Submitted /\ values # <<>>
\* the body arguments of the request, as get_body_arguments returns them
BodyArguments == get_body_arguments(request).val
\* a returned map holds none of the keys that are to be deleted
NoneDeleted(v) == Keys(v) \cap Deleted(handler) = {}
\* a returned map holds the key k with the value of the body
Kept(v, k) == k \in Keys(v) /\ Get(v, k) = Get(BodyArguments, k)
\* the memoized body arguments are the body arguments, and two calls
\* returned the same map
MemoUntouched ==
    /\ memo = BodyArguments
    /\ Len(values) = 2 => values[1] = values[2]

C28_FinishedAtMostOnce == Submitted => finished <= 1

\* the part that holds: a request that raised no SQLAlchemyError, answered or
\* rejected, is finished exactly once
C28_FinishedOnceWithoutStorageError ==
    (Submitted /\ raised \notin SQLAlchemyError) => finished = 1

\* a computer is created and the response finished once
C28_CreatedWitness == Submitted /\ status = 201 /\ Len(stored) = 1 /\ finished = 1

---------------------------------------------------------------------------
(* Claims about the proxies in to_dict, checked under SpecDict *)

\* the proxies of a row whose read raises AttributeError
UnboundProxies(id) ==
    {column \in get_proxies(Store[id].model) : Store[id].attrs[column] = RaisesV("AttributeError")}
\* to_dict has read the proxy of the instance it was called with
ProxyRead(column) ==
    /\ pc = "done" /\ instance.kind = "ent"
    /\ column \in UnboundProxies(instance.v)
    /\ <<instance.v, column>> \in reads
\* the columns of the instance the call does not exclude
RemainingColumns ==
    {c \in get_columns(Store[instance.v].model) : exclude_arg = None \/ ~Contains(exclude_arg, c)}

\* C19: when to_dict reads a proxy of an entity and the read fails with an
\* AttributeError, to_dict raises nothing, the tree holds None under the
\* proxy, and the columns of the entity are in the tree as well.
C19_ProxyFailureIsNull ==
    \A column \in get_proxies("Pet") :
        ProxyRead(column) =>
            /\ raised = "none"
            /\ tree.kind = "dict"
            /\ column \in Keys(tree) /\ Get(tree, column) = None
            /\ include_arg = None => RemainingColumns \subseteq Keys(tree)

\* the same read of a proxy that is bound gives the value in the tree
C19_BoundProxy ==
    /\ pc = "done" /\ instance = EntV("t1") /\ raised = "none"
    /\ tree.kind = "dict" /\ "owner_name" \in Keys(tree)
    /\ Get(tree, "owner_name") = StrV("Anastacia")

---------------------------------------------------------------------------
(* Claims about the routing of the compiled expressions, under SpecQuery *)

\* the entries to_filter compiled: the filters, then the orders
EntryCount == Len(filters) + Len(order_by)
\* entry i is an order, or a filter whose op is an ordering marker
IsOrderingEntry(i) == i > Len(filters) \/ filters[i]["op"] \in {"asc", "desc"}
\* the name of entry i
EntryName(i) == IF i > Len(filters) THEN order_by[i - Len(filters)]["field"] ELSE filters[i]["name"]
\* entry i compiled to an ordering expression that was passed to order_by, or
\* to another expression that was passed to filter
RoutedAsMarked(i) ==
    IF IsOrderingEntry(i)
    THEN /\ queries[1].calls[i].method = "order_by"
         /\ queries[1].calls[i].expression.kind \in {"asc", "desc"}
    ELSE /\ queries[1].calls[i].method = "filter"
         /\ queries[1].calls[i].expression.kind \notin {"asc", "desc"}

\* C20: every filter entry whose op is asc or desc and every order entry,
\* whether its field is plain or a relation path, compiles to an ordering
\* expression that is passed to order_by and not to filter; every other
\* entry is passed to filter and not to order_by.
C20_OrderingEntriesAreOrdered ==
    Queried =>
        /\ Len(queries[1].calls) = EntryCount
        /\ \A i \in 1..EntryCount : RoutedAsMarked(i)

\* the same of the entries whose name is a plain field
C20_PlainEntriesAreOrdered ==
    Queried =>
        /\ Len(queries[1].calls) = EntryCount
        /\ \A i \in 1..EntryCount : Len(EntryName(i)) = 1 => RoutedAsMarked(i)

\* a predicate, an ordering marker among the filters and a plain order
C20_PlainWitness ==
    /\ Queried
    /\ Len(filters) = 2 /\ ~IsOrderingEntry(1) /\ IsOrderingEntry(2)
    /\ Len(order_by) = 1 /\ Len(EntryName(3)) = 1
    /\ queries[1].calls[2].method = "order_by" /\ queries[1].calls[3].method = "order_by"

---------------------------------------------------------------------------
(* Claims about the order entries of to_filter, checked under SpecFilter *)

Compiled == pc = "done" /\ "filters" \in DOMAIN call /\ "order_by" \in DOMAIN call
\* the filter entry an order entry is rewritten into
AsFilterEntry(o) ==
    [name |-> o["field"], op |-> o["direction"],
     nullsfirst |-> IF "nullsfirst" \in DOMAIN o THEN o["nullsfirst"] ELSE FALSE,
     nullslast |-> IF "nullslast" \in DOMAIN o THEN o["nullslast"] ELSE FALSE]
\* the null placement of an ordering expression
Placement(o) ==
    IF "nullsfirst" \in DOMAIN o /\ o["nullsfirst"] THEN Lit(StrV("nullsfirst"))
    ELSE IF "nullslast" \in DOMAIN o /\ o["nullslast"] THEN Lit(StrV("nullslast"))
    ELSE Lit(None)
\* an order entry with a direction that is neither asc nor desc
BadDirection(o) == "direction" \in DOMAIN o /\ o["direction"] \notin {"asc", "desc"}
\* an order entry {field, direction, nullsfirst?, nullslast?}
IsOrderEntry(o) == {"field", "direction"} \subseteq DOMAIN o
\* expression i is what filter i of the call compiles to
FromFilter(i) == alchemy_filters[i] = to_filter(instance, <<call.filters[i]>>, <<>>).exprs[1]
\* expression Len(filters) + j is the ordering of order j of the call, on a plain field
FromOrder(j) ==
    LET e == alchemy_filters[Len(call.filters) + j]
        o == call.order_by[j]
    IN  /\ e.kind = o["direction"]
        /\ e.left = Attr(instance, Text(o["field"]))
        /\ e.right = Placement(o)

C21_Rejected ==
    /\ Compiled /\ Len(call.filters) = 1 /\ Len(call.order_by) = 1
    /\ BadDirection(call.order_by[1])
    /\ raised = "IllegalArgumentError" /\ alchemy_filters = <<>>

\* the caller's list of filters holds the entries it held before the call
FiltersKept == filters = call.filters
\* compiling the same arguments once more gives the list of the first call
SameAgain == to_filter(instance, filters, order_by).exprs = alchemy_filters

\* C29 as stated: to_filter leaves its arguments unchanged; after a call the
\* caller's filters list has the same entries as before and every filter dict
\* keeps its original name, so compiling the same (filters, order_by) a second
\* time yields a list of the same length and content as the first time.
C29_ArgumentsUnchanged ==
    Compiled =>
        /\ FiltersKept
        /\ raised = "none" => SameAgain

\* the part that holds: without orders and without a relation path among the
\* names, the list is left as it was and compiles the same again
C29_PlainFiltersUnchanged ==
    (Compiled /\ call.order_by = <<>>
              /\ \A i \in 1..Len(call.filters) :
                     "name" \in DOMAIN call.filters[i] => Len(call.filters[i].name) = 1)
        => /\ FiltersKept
           /\ raised = "none" => SameAgain

\* two plain filters have been compiled
C29_PlainWitness ==
    /\ Compiled /\ raised = "none" /\ call.order_by = <<>>
    /\ Len(call.filters) = 2 /\ Len(alchemy_filters) = 2

---------------------------------------------------------------------------
(* Claims about the frames of to_dict, checked under SpecDict *)

\* to_dict has returned or raised
Serialized_Call == pc = "done" /\ "include" \in DOMAIN call /\ "exclude" \in DOMAIN call
\* the top-level call has at most one of include and exclude
AtMostOneGiven == call.include = None \/ call.exclude = None

\* C22: a call of to_dict with at most one of include and exclude never
\* enters a frame with both of them, that is, it never raises the ValueError
\* of the check on include and exclude (the only exit of such a frame).
C22_NoFrameWithBoth ==
    (Serialized_Call /\ AtMostOneGiven) => raised # "ValueError"

\* the same of the calls without exclude, on every instance
C22_WithoutExclude ==
    (Serialized_Call /\ call.exclude = None) => raised # "ValueError"

\* a call with include alone that recursed into relations and returned
C22_IncludeWitness ==
    /\ Serialized_Call /\ call.exclude = None /\ call.include.kind = "dict"
    /\ call.instance = EntV("p1")
    /\ raised = "none" /\ tree.kind = "dict"
    /\ "computers" \in Keys(tree) /\ Get(tree, "computers").kind = "list"

---------------------------------------------------------------------------
(* Claims about the conversion error of to_dict, checked under SpecDict *)

\* the call was made on a value that is no leaf, no container and not mapped,
\* without include
Unconvertible == Serialized_Call /\ call.instance.kind = "obj" /\ call.include = None

\* C23: to_dict on a value that is neither None, a scalar, a date or time, a
\* dict, a list nor a mapped instance, without include, raises
\* DictConvertionError, and the instance_type of the error is the type of
\* the value.
C23_ConversionErrorNamesType ==
    Unconvertible =>
        /\ raised = "DictConvertionError"
        /\ instance_type = TypeV(call.instance.v)

\* the first half alone: the call raises DictConvertionError
C23_ConversionErrorRaised ==
    Unconvertible => raised = "DictConvertionError"

C23_Raised ==
    /\ Unconvertible /\ call.exclude = None
    /\ raised = "DictConvertionError" /\ tree = None

---------------------------------------------------------------------------
(* Claims about execute_queries in to_dict, checked under SpecDict *)

\* the options of the call disable execute_queries
QueriesDisabled ==
    /\ ~call.options.shared
    /\ "execute_queries" \in DOMAIN call.options.d
    /\ ~call.options.d["execute_queries"]
\* the options of the call do not disable execute_hybrids
HybridsEnabled == "execute_hybrids" \notin DOMAIN call.options.d \/ call.options.d["execute_hybrids"]
\* a read of a field of a row that was loaded with the row
LoadedRead(rd) == rd[2] \in Store[rd[1]].loaded
\* a read of a hybrid of a row
HybridRead(rd) == rd[2] \in get_hybrids(Store[rd[1]].model)
\* the reads of fields of the mapped classes
FieldReads == {rd \in reads : rd[1] \in Ids /\ rd[2] \in ClassAttrs(Store[rd[1]].model)}
\* a field was read that the claim says is skipped
Permitted(rd) == LoadedRead(rd) \/ (HybridRead(rd) /\ HybridsEnabled)
\* the hybrids of the root entity the call does not exclude
RootHybrids ==
    {c \in get_hybrids(Store[call.instance.v].model) : call.exclude = None \/ ~Contains(call.exclude, c)}

\* C24: with execute_queries disabled to_dict reads no field of any entity,
\* the root or one below a relation, that was not loaded with it, except a
\* hybrid when execute_hybrids is enabled; such a hybrid of the root is in
\* the tree.
C24_UnloadedFieldsSkipped ==
    (Serialized_Call /\ QueriesDisabled) =>
        /\ \A rd \in FieldReads : Permitted(rd)
        /\ (call.instance.kind = "ent" /\ call.include = None /\ raised = "none" /\ HybridsEnabled)
              => RootHybrids \subseteq Keys(tree)

\* the same of the fields of the root entity, for a call without include
C24_RootFieldsSkipped ==
    (Serialized_Call /\ QueriesDisabled /\ call.instance.kind = "ent" /\ call.include = None) =>
        /\ \A rd \in FieldReads : rd[1] = call.instance.v => Permitted(rd)
        /\ (raised = "none" /\ HybridsEnabled) => RootHybrids \subseteq Keys(tree)

\* p1 serialized without queries: the relations, none of them loaded, are
\* omitted and the hybrid is read
C24_RootWitness ==
    /\ Serialized_Call /\ QueriesDisabled /\ HybridsEnabled
    /\ call.instance = EntV("p1") /\ call.include = None /\ call.exclude = None
    /\ raised = "none"
    /\ Keys(tree) = {"_id", "name", "birth", "age"}
    /\ reads = {<<"p1", "_id">>, <<"p1", "name">>, <<"p1", "birth">>, <<"p1", "age">>}

---------------------------------------------------------------------------
(* handler.BaseHandler.parse_columns.  A column name is held as the        *)
(* sequence of its characters, since the code iterates over strings; the   *)
(* keys of the returned dict are the texts.  A dict keeps its keys in      *)
(* insertion order.                                                        *)

\* the text of a sequence of characters
RECURSIVE Str(_)
Str(chars) == IF chars = <<>> THEN "" ELSE chars[1] \o Str(Tail(chars))
\* iterating over a string: its characters, each a string
characters(chars) == [i \in 1..Len(chars) |-> <<chars[i]>>]
\* column.split(".", 1)
split(column) ==
    IF \A i \in 1..Len(column) : column[i] # "." THEN <<column>>
    ELSE LET k == CHOOSE i \in 1..Len(column) :
                      column[i] = "." /\ \A j \in 1..(i - 1) : column[j] # "."
         IN  <<SubSeq(column, 1, k - 1), SubSeq(column, k + 1, Len(column))>>
\* the list columns.setdefault(key, []) holds, of names in characters
NamesV(names) == [kind |-> "names", v |-> names]
\* an itertools.chain object: what it yields
ChainV(keys) == [kind |-> "chain", v |-> keys]

\* the first loop of parse_columns from item i on: [err, val]
RECURSIVE parse_loop(_, _, _)
parse_loop(items, i, cols) ==
    IF i > Len(items) THEN [err |-> "none", val |-> cols]
    ELSE LET column == split(items[i])
             key == Str(column[1])
         IN  IF Len(column) = 1 THEN parse_loop(items, i + 1, Put(cols, key, True))
             ELSE IF key \notin Keys(cols)
             THEN parse_loop(items, i + 1, Put(cols, key, NamesV(<<column[2]>>)))
             ELSE IF Get(cols, key).kind = "names"
             THEN parse_loop(items, i + 1, Put(cols, key, NamesV(Append(Get(cols, key).v, column[2]))))
             ELSE [err |-> "AttributeError", val |-> None]

RECURSIVE parse_columns(_)
RECURSIVE chained(_, _)
\* chain.from_iterable(self.parse_columns(strings) for strings in item): the
\* keys of the dicts parse_columns returns for each string of item, a string
\* being passed as the list of names
chained(item, i) ==
    IF i > Len(item) THEN <<>>
    ELSE LET sub == parse_columns(NamesV(characters(item[i]))).val
         IN  [j \in 1..Len(sub.v) |-> StrV(sub.v[j][1])] \o chained(item, i + 1)

\* the second loop of parse_columns
parse_relations(cols) ==
    DictV([i \in 1..Len(cols.v) |->
        IF cols.v[i][2].kind = "names"
        THEN <<cols.v[i][1], ChainV(chained(cols.v[i][2].v, 1))>>
        ELSE cols.v[i]])

\* BaseHandler.parse_columns(strings): [err, val]
parse_columns(strings) ==
    IF strings.kind = "none" THEN [err |-> "none", val |-> None]
    ELSE IF parse_loop(strings.v, 1, DictV(<<>>)).err # "none"
    THEN parse_loop(strings.v, 1, DictV(<<>>))
    ELSE [err |-> "none", val |-> parse_relations(parse_loop(strings.v, 1, DictV(<<>>)).val)]

---------------------------------------------------------------------------
(* The scenario of parse_columns: Init draws the list, Parse calls it.     *)

\* the longest list of column names
MaxColumns == 3

\* columns of Computer, its relation, and fields over the relation
ColumnNames ==
    {<<"c", "p", "u">>,
     <<"r", "a", "m">>,
     <<"u", "s", "e", "r">>,
     <<"u", "s", "e", "r", ".", "n", "a", "m", "e">>,
     <<"u", "s", "e", "r", ".", "_", "i", "d">>,
     <<"u", "s", "e", "r", ".", "p", "e", "t", ".", "n", "a", "m", "e">>}

InitColumns ==
    /\ pc = "ready"
    /\ instance = "Computer"
    /\ call \in {[strings |-> None]} \cup {[strings |-> NamesV(l)] : l \in SeqsUpTo(ColumnNames, MaxColumns)}
    /\ raised = "none"
    /\ FilterIdle
    /\ DictIdle
    /\ HandlerIdle

Parse ==
    /\ pc = "ready"
    /\ columns' = parse_columns(call.strings).val
    /\ raised' = parse_columns(call.strings).err
    /\ pc' = "done"
    /\ UNCHANGED <<instance, call, filter_vars, dict_vars, handler_vars>>

NextColumns == Parse

SpecColumns == InitColumns /\ [][NextColumns]_vars

---------------------------------------------------------------------------
(* Claims about parse_columns, checked under SpecColumns *)

Parsed == pc = "done" /\ "strings" \in DOMAIN call /\ call.strings.kind = "names"
\* the names of the list
Strings == call.strings.v
\* the names a spec holds
SpecNames(spec) ==
    IF spec.kind = "dict" THEN Keys(spec)
    ELSE IF spec.kind = "chain" THEN {spec.v[i].v : i \in 1..Len(spec.v)}
    ELSE {}
\* a spec holds the path of a name: its first part as a key, and under that
\* key a spec that holds the rest
RECURSIVE HoldsPath(_, _)
HoldsPath(spec, name) ==
    /\ Str(split(name)[1]) \in SpecNames(spec)
    /\ Len(split(name)) = 2 =>
          /\ spec.kind = "dict"
          /\ HoldsPath(Get(spec, Str(split(name)[1])), split(name)[2])
\* the first parts of the dotted names of the list
Relations == {Str(split(Strings[i])[1]) : i \in {j \in 1..Len(Strings) : Len(split(Strings[j])) = 2}}

\* C25: parse_columns does not fail; the dict it returns holds the path of
\* every name of the list, an undotted name under its own key and a dotted
\* name rel.x as x in the spec under rel, and so on for deeper paths; a key
\* has the value True if and only if no dotted name of the list starts with it.
C25_ColumnsParsed ==
    Parsed =>
        /\ raised = "none"
        /\ columns.kind = "dict"
        /\ \A i \in 1..Len(Strings) : HoldsPath(columns, Strings[i])
        /\ \A k \in Keys(columns) : (Get(columns, k) = True) <=> (k \notin Relations)

\* the same of the lists of undotted names
C25_PlainColumnsParsed ==
    (Parsed /\ Relations = {}) =>
        /\ raised = "none"
        /\ columns.kind = "dict"
        /\ Keys(columns) = {Str(Strings[i]) : i \in 1..Len(Strings)}
        /\ \A k \in Keys(columns) : Get(columns, k) = True

C25_PlainWitness ==
    /\ Parsed /\ Len(Strings) = 2 /\ raised = "none"
    /\ columns = D2("cpu", True, "user", True)

---------------------------------------------------------------------------
(* Claims about the depth of to_dict, checked under SpecDict *)

\* the entities the call was made on: the instance, or the elements of a list
Roots ==
    IF call.instance.kind = "ent" THEN {call.instance.v}
    ELSE IF call.instance.kind = "list"
    THEN {call.instance.v[i].v : i \in {j \in 1..Len(call.instance.v) : call.instance.v[j].kind = "ent"}}
    ELSE {}
\* the entities one relation away from a root
RelatedTo(id) == UNION {Related(id, rel) : rel \in get_relations(Store[id].model)}
DirectlyRelated == UNION {RelatedTo(id) : id \in Roots}
\* the entities the call has read a field of
Visited == {rd[1] : rd \in {x \in reads : x[1] \in Ids}}
\* the entities the call has read a relation of
Expanded == {rd[1] : rd \in {x \in reads : x[1] \in Ids /\ x[2] \in get_relations(Store[x[1]].model)}}
\* without include, only the roots are expanded and only they and the
\* entities directly related to them are visited
WithinOneHop ==
    (Serialized_Call /\ call.include = None) =>
        /\ Expanded \subseteq Roots
        /\ Visited \subseteq Roots \cup DirectlyRelated

\* C26: the step of every call of to_dict without include ends the call,
\* also on entities that refer to each other in a cycle, and the call has
\* expanded no entity but the root, visiting the root and the entities
\* directly related to it only.
C26_TerminatesWithinOneHop ==
    [][(pc = "ready" /\ "include" \in DOMAIN call /\ call.include = None)
           => (pc' = "done" /\ WithinOneHop')]_vars

\* p1 and p2 are friends of each other: serializing p1 reads the columns of
\* p2 and of the computers and the pet of p1, and no relation of any of them
C26_CycleWitness ==
    /\ Serialized_Call /\ call.instance = EntV("p1")
    /\ call.include = None /\ call.exclude = None
    /\ Store["p2"].attrs["friend"] = EntV("p1")
    /\ raised = "none"
    /\ Visited = {"p1", "p2", "c1", "c2", "t1"}
    /\ Expanded = {"p1"}

---------------------------------------------------------------------------
(* The scenario of to_dict called twice in one process: Serialize is the   *)
(* first call, on an instance with the default options; Recall is a later  *)
(* call on an instance with no include, no exclude and no options.  The    *)
(* default of the options parameter is one object for all calls.           *)

InitCalls ==
    /\ InitDict
    /\ instance.kind = "ent"
    /\ options_arg = DefaultOptions

\* the later call on the instance later
Recalled(later) ==
    to_dict(EntV(later), DefaultOptions, None, None, [reads |-> {}, dflt |-> default_options])

Recall ==
    /\ pc = "done"
    /\ \E later \in Ids :
          /\ instance' = EntV(later)
          /\ call' = [instance |-> EntV(later), include |-> None, exclude |-> None,
                      options |-> DefaultOptions]
          /\ tree' = Recalled(later).val
          /\ raised' = Recalled(later).err
          /\ instance_type' = exception(Recalled(later).err).instance_type
          /\ reads' = Recalled(later).st.reads
          /\ default_options' = Recalled(later).st.dflt
          /\ include_arg' = Recalled(later).include
    /\ exclude_arg' = None
    /\ pc' = "again"
    /\ UNCHANGED <<columns, options_arg, filter_vars, handler_vars>>

NextCalls == Serialize \/ Recall

SpecCalls == InitCalls /\ [][NextCalls]_vars

---------------------------------------------------------------------------
(* Claims about to_dict across calls, checked under SpecCalls *)

\* the later call has returned
Recalled_Call == pc = "again" /\ "include" \in DOMAIN call
\* the tree of the same call when no call went before it
FirstTree ==
    to_dict(call.instance, DefaultOptions, None, None, [reads |-> {}, dflt |-> <<>>]).val

\* C30 as stated: to_dict is deterministic across calls; for a given entity,
\* include and exclude with no explicit options, the returned tree is the same
\* after any sequence of earlier to_dict calls, because no call ever modifies
\* the shared default options mapping.
C30_SameTreeAfterEarlierCalls ==
    /\ Recalled_Call => tree = FirstTree
    /\ default_options = <<>>

\* the part that holds: as long as no earlier call has read a Query, the
\* default options are as they were and the tree is that of a first call
C30_SameTreeWhileOptionsUntouched ==
    (Recalled_Call /\ default_options = <<>>) => tree = FirstTree

\* a person serialized after a computer: the tree of a first call
C30_UntouchedWitness ==
    /\ Recalled_Call /\ call.instance = EntV("p1")
    /\ default_options = <<>>
    /\ raised = "none"
    /\ "computers" \in Keys(tree)

=============================================================================
